---- MODULE Spec2Model ----
(***************************************************************************)
(* Model of the generation-job lifecycle engine of the Discord video bot:  *)
(* the counting semaphore (src/common/semaphore.ts), the download gate of  *)
(* VideoAttachmentService, the request ledger (RequestTrackingService) and *)
(* the startup resumption coordinator (TaskResumeService).                 *)
(***************************************************************************)
EXTENDS Integers, Sequences, FiniteSets, TLC

(***************************************************************************)
(* Bounds of the model.                                                    *)
(***************************************************************************)
NumTasks == 4          \* concurrent callers of the semaphore
MaxPermits == 1        \* maxPermits handed to the Semaphore constructor
MaxRows == 1           \* rows createRequest inserts in the ledger's own specification
MaxElapsed == 1        \* hours the clock advances
NumReq == 4            \* requests younger than the window when the process starts
MaxOutages == 1        \* times the store becomes unreachable
MaxFaults == 2         \* calls that go wrong in one resume run (error, empty listing, timer)
MaxCallMs == 5000      \* ms a slow call of the poller takes (a fast one takes none)
MaxSlowCalls == 2      \* slow calls in one poll
NumCommands == 2       \* commands handled concurrently

Tasks == 1 .. NumTasks

VARIABLES
  permits,     \* Semaphore.permits
  queue,       \* Semaphore.queue: the waiters, oldest first (one entry per caller)
  timers,      \* callers whose acquire timeout (setTimeout) is armed
  pc,          \* where each caller stands
  call,        \* the operation each caller is running
  handoff,     \* callers whose current permit came from release(), not the fast path
  before,      \* <<a, b>>: a and b are both waiting and a called acquire first
  result,      \* AttachmentResult of each caller's last attachVideoOrFallback
  ledger,      \* table video_requests: request id -> row
  now,         \* the clock (NOW() of the store, Date.now() of the process), in hours
  dbUp,        \* whether the store answers
  outages,     \* how often the store has gone down
  lost,        \* ids of the requests a ledger call of which the store did not take
               \* (0 for a failed getIncompleteRequests)
  cpc,         \* where resumeIncompleteTasks stands: idle, running, done
  snapshot,    \* the rows getIncompleteRequests returned, oldest first
  launched,    \* how many rows of the snapshot have been handed to a batch
  item,        \* per request: its batch item (wrapper) and its resume logic
  faults,      \* how many calls of the resume run have gone wrong so far
  service,     \* which poller runs: veo, banana, or the one-argument pollOperation
  jobHandle,   \* kind of operationName: "operation" or "gemini-sync"
  onProgress,  \* whether a progress callback was handed to pollOperation
  ppc,         \* where pollOperation stands
  elapsed,     \* Date.now() - startTime, in ms
  pollInterval, \* the sleep of the current iteration, in whole ms
  iter,        \* the iterations entered so far
  objects,     \* whether the result location holds a matching output object
  poll,        \* what the run has seen and how it ended
  qpc,         \* where each command stands between consume and createRequest
  quota,       \* per command: the count read and the RateLimitResult of consume
  live         \* per command: where VeoCommand.execute stands after consume

semVars == <<permits, queue, timers, pc, call, handoff, before, result>>
ledgerVars == <<ledger, now, dbUp, outages, lost>>
resumeVars == <<cpc, snapshot, launched, item, faults>>

pollVars == <<service, jobHandle, onProgress, ppc, elapsed, pollInterval, iter,
              objects, poll>>
quotaVars == <<qpc, quota>>
liveVars == <<live>>

vars == <<semVars, ledgerVars, resumeVars, pollVars, quotaVars, liveVars>>

(***************************************************************************)
(* Error messages and the substring tests the code branches on.            *)
(***************************************************************************)
SemaphoreTimeoutMsg == "Semaphore acquire timeout after 30000ms"

\* messages storage and Discord calls can throw (a few representatives)
DownloadErrors == {"Failed to download", "File not found", "socket timeout", "ECONNRESET"}
DiscordErrors == {"Missing Access", "Request entity too large"}

\* String.prototype.includes(needle) on the messages of the model
Includes(msg, needle) ==
  CASE needle = "timeout" ->
         msg \in {SemaphoreTimeoutMsg, "socket timeout", "Request timeout"}
    [] needle = "Failed to download" -> msg = "Failed to download"
    [] needle = "File not found" -> msg = "File not found"
    [] needle = "404" -> msg \in {"Poll error (404)", "404 bucket"}
    [] needle = "not found" -> msg \in {"Operation not found", "No such object: not found"}
    [] needle = "timed out" ->
         msg \in {"Generation timed out after 5 minutes",
                  "Image generation timed out after 3 minutes",
                  "Operation timed out after 5 minutes"}
    [] OTHER -> FALSE

(***************************************************************************)
(* Semaphore (src/common/semaphore.ts)                                     *)
(***************************************************************************)
RemoveAt(s, i) == SubSeq(s, 1, i - 1) \o SubSeq(s, i + 1, Len(s))

\* Array.prototype.findIndex: the first index holding t, 0 when absent
FindIndex(s, t) ==
  IF \E i \in 1 .. Len(s) : s[i] = t
  THEN CHOOSE i \in 1 .. Len(s) : s[i] = t /\ \A j \in 1 .. (i - 1) : s[j] # t
  ELSE 0

\* where a caller's code goes on once its acquire promise resolves
Granted(k) ==
  CASE k = "acquire" -> "holding"
    [] k = "runExclusive" -> "fn"
    [] k = "attach" -> "downloading"

\* where a caller's code goes on once its acquire promise rejects
Rejected(k) ==
  CASE k = "acquire" -> "timedout"
    [] k = "runExclusive" -> "timedout"
    [] k = "attach" -> "done"

\* the caller is in no call: it has not started one, or its last one has ended
Free(t) == pc[t] \in {"idle", "timedout", "returned", "threw", "done"}

\* history: arrival order among the callers that are waiting after the step
TrackOrder ==
  before' = {p \in (before \cup {q \in Tasks \X Tasks :
                                   /\ pc[q[1]] = "waiting"
                                   /\ pc[q[2]] # "waiting"
                                   /\ pc'[q[2]] = "waiting"}) :
               pc'[p[1]] = "waiting" /\ pc'[p[2]] = "waiting"}

\* acquire without the permits > 0 test: every caller takes the fast path
acquireNoLimit(t, k) ==
  /\ permits' = permits - 1
  /\ pc' = [pc EXCEPT ![t] = Granted(k)]
  /\ handoff' = handoff \ {t}
  /\ UNCHANGED <<queue, timers>>

\* acquire whose fast path forgets this.permits--
acquireNoDecrement(t, k) ==
  IF permits > 0
  THEN /\ pc' = [pc EXCEPT ![t] = Granted(k)]
       /\ handoff' = handoff \ {t}
       /\ UNCHANGED <<permits, queue, timers>>
  ELSE /\ queue' = Append(queue, t)
       /\ timers' = timers \cup {t}
       /\ pc' = [pc EXCEPT ![t] = "waiting"]
       /\ UNCHANGED <<permits, handoff>>

\* Semaphore.acquire(timeoutMs) called by t from operation k
acquire(t, k) ==
  IF permits > 0
  THEN /\ permits' = permits - 1
       /\ pc' = [pc EXCEPT ![t] = Granted(k)]
       /\ handoff' = handoff \ {t}
       /\ UNCHANGED <<queue, timers>>
  ELSE /\ queue' = Append(queue, t)
       /\ timers' = timers \cup {t}
       /\ pc' = [pc EXCEPT ![t] = "waiting"]
       /\ UNCHANGED <<permits, handoff>>

\* Array.prototype.pop in place of shift: the newest entry is taken
pop(q) == [item |-> q[Len(q)], rest |-> SubSeq(q, 1, Len(q) - 1)]

\* Array.prototype.shift: the oldest entry is taken
shift(q) == [item |-> Head(q), rest |-> Tail(q)]

\* release that counts the permit up also when it hands it to a waiter
releaseAlwaysIncrement(t, after) ==
  IF Len(queue) > 0
  THEN LET next == shift(queue).item IN
       /\ queue' = shift(queue).rest
       /\ timers' = timers \ {next}
       /\ pc' = [pc EXCEPT ![t] = after, ![next] = Granted(call[next])]
       /\ handoff' = (handoff \ {t}) \cup {next}
       /\ permits' = permits + 1
  ELSE /\ permits' = permits + 1
       /\ pc' = [pc EXCEPT ![t] = after]
       /\ handoff' = handoff \ {t}
       /\ UNCHANGED <<queue, timers>>

\* release that leaves the woken waiter's timeout armed (no clearTimeout)
releaseKeepTimer(t, after) ==
  IF Len(queue) > 0
  THEN LET next == shift(queue).item IN
       /\ queue' = shift(queue).rest
       /\ pc' = [pc EXCEPT ![t] = after, ![next] = Granted(call[next])]
       /\ handoff' = (handoff \ {t}) \cup {next}
       /\ UNCHANGED <<permits, timers>>
  ELSE /\ permits' = permits + 1
       /\ pc' = [pc EXCEPT ![t] = after]
       /\ handoff' = handoff \ {t}
       /\ UNCHANGED <<queue, timers>>

\* Semaphore.release() called by t, whose code goes on at `after`
release(t, after) ==
  IF Len(queue) > 0
  THEN LET next == shift(queue).item IN
       /\ queue' = shift(queue).rest
       /\ timers' = timers \ {next}
       /\ pc' = [pc EXCEPT ![t] = after, ![next] = Granted(call[next])]
       /\ handoff' = (handoff \ {t}) \cup {next}
       /\ UNCHANGED permits
  ELSE /\ permits' = permits + 1
       /\ pc' = [pc EXCEPT ![t] = after]
       /\ handoff' = handoff \ {t}
       /\ UNCHANGED <<queue, timers>>

\* the timeout callback without the splice: the entry stays in the queue
onTimeoutNoSplice(t) ==
  /\ timers' = timers \ {t}
  /\ pc' = [pc EXCEPT ![t] = IF pc[t] = "waiting" THEN Rejected(call[t]) ELSE pc[t]]
  /\ UNCHANGED <<permits, queue, handoff>>

\* a timeout callback that also counts a permit up, as if the waiter had held one
onTimeoutReturnsPermit(t) ==
  LET index == FindIndex(queue, t) IN
  /\ queue' = IF index # 0 THEN RemoveAt(queue, index) ELSE queue
  /\ timers' = timers \ {t}
  /\ pc' = [pc EXCEPT ![t] = IF pc[t] = "waiting" THEN Rejected(call[t]) ELSE pc[t]]
  /\ permits' = permits + 1
  /\ UNCHANGED handoff

\* a timeout callback that takes the oldest entry out, whoever's it is
onTimeoutShift(t) ==
  /\ queue' = IF Len(queue) > 0 THEN Tail(queue) ELSE queue
  /\ timers' = timers \ {t}
  /\ pc' = [pc EXCEPT ![t] = IF pc[t] = "waiting" THEN Rejected(call[t]) ELSE pc[t]]
  /\ UNCHANGED <<permits, handoff>>

\* the setTimeout callback of t's acquire
onTimeout(t) ==
  LET index == FindIndex(queue, t) IN
  /\ queue' = IF index # 0 THEN RemoveAt(queue, index) ELSE queue
  /\ timers' = timers \ {t}
  /\ pc' = [pc EXCEPT ![t] = IF pc[t] = "waiting" THEN Rejected(call[t]) ELSE pc[t]]
  /\ UNCHANGED <<permits, handoff>>

\* runExclusive with the release after fn() instead of in a finally block
runExclusiveNoFinally(t, outcome) ==
  IF outcome = "returned"
  THEN release(t, outcome)
  ELSE /\ pc' = [pc EXCEPT ![t] = outcome]
       /\ UNCHANGED <<permits, queue, timers, handoff>>

\* Semaphore.runExclusive(fn): the finally block, fn having ended with `outcome`
runExclusiveExit(t, outcome) == release(t, outcome)

\* new Semaphore(maxPermits), no caller in a call
SemIdle ==
  /\ permits = MaxPermits
  /\ queue = <<>>
  /\ timers = {}
  /\ pc = [t \in Tasks |-> "idle"]
  /\ call = [t \in Tasks |-> "none"]
  /\ handoff = {}
  /\ before = {}
  /\ result = [t \in Tasks |-> "none"]

(***************************************************************************)
(* Request ledger (src/database/request-tracking.service.ts)               *)
(***************************************************************************)
\* SQL NULL / a value
Null == <<>>
Some(x) == <<x>>

StartTime == 30        \* the hour the model starts at (later than every age used)

Terminal == {"completed", "failed", "timeout"}
Incomplete == {"pending", "generating"}

\* StorageService.publicUrl / buildOutputPrefix
publicUrl(objectName) == <<"https://storage.googleapis.com/bucket", objectName>>
buildOutputPrefix(id) == <<"discord/guild/channel/user", id>>

\* the public URLs of a list of object names, in order (the loop of pollAndComplete)
PublicUrls(files) == [i \in 1 .. Len(files) |-> publicUrl(files[i])]

\* error messages handed to setFailed; the long one stands for 600 characters
LongMsg == "long message (600 chars)"
LongMsgCut == "long message (first 500 chars)"

\* errorMessage.substring(0, 500)
Substring500(msg) == IF msg = LongMsg THEN LongMsgCut ELSE msg

DefaultTimeoutMsg == "Generation timed out after 5 minutes"

\* the row INSERTed by createRequest at time t
NewRow(t) ==
  [status |-> "pending", operation_name |-> Null, gcs_prefix |-> Null,
   created_at |-> t, started_at |-> Null, completed_at |-> Null,
   duration_ms |-> Null, video_urls |-> Null, error_message |-> Null]

\* EXTRACT(EPOCH FROM (NOW() - started_at)) * 1000, NULL when started_at is NULL
Duration(row, t) ==
  IF row.started_at = Null THEN Null ELSE Some(t - row.started_at[1])

\* UPDATE video_requests SET ... WHERE id = ${id}: the row after setGenerating
setGenerating(L, id, operationName, gcsPrefix, t) ==
  IF id \in DOMAIN L
  THEN [L EXCEPT ![id] = [@ EXCEPT !.status = "generating",
                                   !.operation_name = Some(operationName),
                                   !.gcs_prefix = Some(gcsPrefix),
                                   !.started_at = Some(t)]]
  ELSE L

\* the table after setCompleted(id, videoUrls)
setCompleted(L, id, videoUrls, t) ==
  IF id \in DOMAIN L
  THEN [L EXCEPT ![id] = [@ EXCEPT !.status = "completed",
                                   !.video_urls = Some(videoUrls),
                                   !.completed_at = Some(t),
                                   !.duration_ms = Duration(L[id], t)]]
  ELSE L

\* the table after setFailed(id, errorMessage)
setFailed(L, id, errorMessage, t) ==
  IF id \in DOMAIN L
  THEN [L EXCEPT ![id] = [@ EXCEPT !.status = "failed",
                                   !.error_message = Some(Substring500(errorMessage)),
                                   !.completed_at = Some(t),
                                   !.duration_ms = Duration(L[id], t)]]
  ELSE L

\* the table after setTimeout(id, errorMessage)
setTimeout(L, id, errorMessage, t) ==
  IF id \in DOMAIN L
  THEN [L EXCEPT ![id] = [@ EXCEPT !.status = "timeout",
                                   !.error_message = Some(errorMessage),
                                   !.completed_at = Some(t),
                                   !.duration_ms = Duration(L[id], t)]]
  ELSE L

\* a ledger write as its caller sees it: the store takes it, or the error is
\* logged and swallowed (try/catch of every write) and the table stays as it was
\* a write whose catch block rethrows the store's error
WriteOutcomeRethrow(up) == IF up THEN "stored" ELSE "threw"

\* how a write (setGenerating, setCompleted, setFailed, setTimeout) ends for
\* its caller: try { query } catch (error) { logger.error(...) } returns
\* normally whether the store took the UPDATE or the query threw
WriteOutcome(up) == IF up THEN "stored" ELSE "logged"

Write(id, after) ==
  /\ ledger' = IF WriteOutcome(dbUp) = "stored" THEN after ELSE ledger
  /\ lost' = IF WriteOutcome(dbUp) = "stored" THEN lost ELSE lost \cup {id}
  /\ UNCHANGED <<now, dbUp, outages>>

\* the clock advances
Tick ==
  /\ now < StartTime + MaxElapsed
  /\ now' = now + 1
  /\ UNCHANGED <<ledger, dbUp, outages, lost>>

\* the store becomes unreachable
StoreDown ==
  /\ dbUp
  /\ outages < MaxOutages
  /\ dbUp' = FALSE
  /\ outages' = outages + 1
  /\ UNCHANGED <<ledger, now, lost>>

\* the store is reachable again
StoreUp ==
  /\ ~dbUp
  /\ dbUp' = TRUE
  /\ UNCHANGED <<ledger, now, outages, lost>>

LedgerIdle ==
  /\ ledger = <<>>
  /\ now = StartTime
  /\ dbUp = TRUE
  /\ outages = 0
  /\ lost = {}

\* resumeIncompleteTasks not called
ResumeIdle ==
  /\ cpc = "idle"
  /\ snapshot = <<>>
  /\ launched = 0
  /\ faults = 0
  /\ item = <<>>

\* no poll has been started
NoPoll ==
  [objIter |-> 0, probeFailed |-> FALSE, reported |-> <<>>, invoked |-> <<>>,
   outcome |-> "none", at |-> 0, lastStart |-> 0, lastCalls |-> 0,
   lastSleep |-> 0, slow |-> 0]

PollIdle ==
  /\ service = "none"
  /\ jobHandle = "none"
  /\ onProgress = FALSE
  /\ ppc = "idle"
  /\ elapsed = 0
  /\ pollInterval = 0
  /\ iter = 0
  /\ objects = FALSE
  /\ poll = NoPoll

\* no command is being handled
QuotaIdle ==
  /\ qpc = <<>>
  /\ quota = <<>>

\* no command has passed its quota check
LiveIdle == live = <<>>

(***************************************************************************)
(* The ledger under any caller: createRequest and the four writes, in any  *)
(* order and with any arguments.                                           *)
(***************************************************************************)
RowIds == 1 .. MaxRows
OperationNames == {"op-1"}
UrlLists == {<<>>, <<publicUrl("a.mp4")>>}
FailMessages == {"Veo API error (500)", LongMsg}

\* createRequest: INSERT ... RETURNING id; a synthetic id when the store fails
CreateRequest ==
  /\ UNCHANGED <<semVars, resumeVars, pollVars, quotaVars, liveVars>>
  /\ Len(ledger) < MaxRows
  /\ ledger' = IF dbUp THEN Append(ledger, NewRow(now)) ELSE ledger
  /\ UNCHANGED <<now, dbUp, outages, lost>>

SetGenerating(id) ==
  /\ UNCHANGED <<semVars, resumeVars, pollVars, quotaVars, liveVars>>
  /\ \E op \in OperationNames :
       Write(id, setGenerating(ledger, id, op, buildOutputPrefix(id), now))

SetCompleted(id) ==
  /\ UNCHANGED <<semVars, resumeVars, pollVars, quotaVars, liveVars>>
  /\ \E urls \in UrlLists : Write(id, setCompleted(ledger, id, urls, now))

SetFailed(id) ==
  /\ UNCHANGED <<semVars, resumeVars, pollVars, quotaVars, liveVars>>
  /\ \E msg \in FailMessages : Write(id, setFailed(ledger, id, msg, now))

SetTimeout(id) ==
  /\ UNCHANGED <<semVars, resumeVars, pollVars, quotaVars, liveVars>>
  /\ Write(id, setTimeout(ledger, id, DefaultTimeoutMsg, now))

LedgerInit == SemIdle /\ LedgerIdle /\ ResumeIdle /\ PollIdle /\ QuotaIdle /\ LiveIdle

LedgerTick == Tick /\ UNCHANGED <<semVars, resumeVars, pollVars, quotaVars, liveVars>>
LedgerStoreDown == StoreDown /\ UNCHANGED <<semVars, resumeVars, pollVars, quotaVars, liveVars>>
LedgerStoreUp == StoreUp /\ UNCHANGED <<semVars, resumeVars, pollVars, quotaVars, liveVars>>

LedgerNext ==
  \/ CreateRequest
  \/ LedgerTick
  \/ LedgerStoreDown
  \/ LedgerStoreUp
  \/ \E id \in RowIds :
       \/ SetGenerating(id)
       \/ SetCompleted(id)
       \/ SetFailed(id)
       \/ SetTimeout(id)

LedgerSpec == LedgerInit /\ [][LedgerNext]_vars

(***************************************************************************)
(* Callers of the semaphore as in semaphore.spec.ts: acquire ... release   *)
(* pairs and runExclusive calls, in any interleaving.                      *)
(***************************************************************************)
Acquire(t) ==
  /\ UNCHANGED <<ledgerVars, resumeVars, pollVars, quotaVars, liveVars>>
  /\ Free(t)
  /\ call' = [call EXCEPT ![t] = "acquire"]
  /\ acquire(t, "acquire")
  /\ TrackOrder
  /\ UNCHANGED result

Release(t) ==
  /\ UNCHANGED <<ledgerVars, resumeVars, pollVars, quotaVars, liveVars>>
  /\ pc[t] = "holding"
  /\ release(t, "idle")
  /\ TrackOrder
  /\ UNCHANGED <<call, result>>

Timeout(t) ==
  /\ UNCHANGED <<ledgerVars, resumeVars, pollVars, quotaVars, liveVars>>
  /\ t \in timers
  /\ onTimeout(t)
  /\ TrackOrder
  /\ UNCHANGED <<call, result>>

RunExclusive(t) ==
  /\ UNCHANGED <<ledgerVars, resumeVars, pollVars, quotaVars, liveVars>>
  /\ Free(t)
  /\ call' = [call EXCEPT ![t] = "runExclusive"]
  /\ acquire(t, "runExclusive")
  /\ TrackOrder
  /\ UNCHANGED result

FnReturn(t) ==
  /\ UNCHANGED <<ledgerVars, resumeVars, pollVars, quotaVars, liveVars>>
  /\ pc[t] = "fn"
  /\ runExclusiveExit(t, "returned")
  /\ TrackOrder
  /\ UNCHANGED <<call, result>>

FnThrow(t) ==
  /\ UNCHANGED <<ledgerVars, resumeVars, pollVars, quotaVars, liveVars>>
  /\ pc[t] = "fn"
  /\ runExclusiveExit(t, "threw")
  /\ TrackOrder
  /\ UNCHANGED <<call, result>>

SemInit == SemIdle /\ LedgerIdle /\ ResumeIdle /\ PollIdle /\ QuotaIdle /\ LiveIdle

SemNext ==
  \E t \in Tasks :
    \/ Acquire(t)
    \/ Release(t)
    \/ Timeout(t)
    \/ RunExclusive(t)
    \/ FnReturn(t)
    \/ FnThrow(t)

SemSpec == SemInit /\ [][SemNext]_vars

(***************************************************************************)
(* VideoAttachmentService.attachVideoOrFallback                            *)
(* (src/discord/video-attachment.service.ts)                               *)
(***************************************************************************)
DISCORD_MAX_FILE_SIZE == 26214400

FileSizes == {DISCORD_MAX_FILE_SIZE, DISCORD_MAX_FILE_SIZE + 1}

\* a catch block without the branch for the acquire timeout
FallbackReasonNoTimeout(msg) ==
  IF Includes(msg, "Failed to download") \/ Includes(msg, "File not found")
  THEN "download_error"
  ELSE "discord_error"

\* the catch block of attachVideoOrFallback: the reason it reports for a message
FallbackReason(msg) ==
  IF Includes(msg, "timeout") THEN "concurrency_timeout"
  ELSE IF Includes(msg, "Failed to download") \/ Includes(msg, "File not found")
       THEN "download_error"
       ELSE "discord_error"

\* getFileMetadata throws: the catch block answers with the URL
AttachMetadataFail(t) ==
  /\ UNCHANGED <<ledgerVars, resumeVars, pollVars, quotaVars, liveVars>>
  /\ Free(t)
  /\ \E msg \in DownloadErrors :
       result' = [result EXCEPT ![t] = FallbackReason(msg)]
  /\ call' = [call EXCEPT ![t] = "attach"]
  /\ pc' = [pc EXCEPT ![t] = "done"]
  /\ UNCHANGED <<permits, queue, timers, handoff, before>>

\* getFileMetadata answers: too large, or go on to acquire(30000)
AttachStart(t) ==
  /\ UNCHANGED <<ledgerVars, resumeVars, pollVars, quotaVars, liveVars>>
  /\ Free(t)
  /\ call' = [call EXCEPT ![t] = "attach"]
  /\ \E size \in FileSizes :
       IF size > DISCORD_MAX_FILE_SIZE
       THEN /\ result' = [result EXCEPT ![t] = "size_exceeded"]
            /\ pc' = [pc EXCEPT ![t] = "done"]
            /\ UNCHANGED <<permits, queue, timers, handoff>>
       ELSE /\ result' = [result EXCEPT ![t] = "none"]
            /\ acquire(t, "attach")
  /\ TrackOrder

\* the acquire timeout fires: the catch block answers concurrency_timeout
AttachTimeout(t) ==
  /\ UNCHANGED <<ledgerVars, resumeVars, pollVars, quotaVars, liveVars>>
  /\ t \in timers
  /\ onTimeout(t)
  /\ result' = IF pc[t] = "waiting"
               THEN [result EXCEPT ![t] = FallbackReason(SemaphoreTimeoutMsg)]
               ELSE result
  /\ TrackOrder
  /\ UNCHANGED call

\* downloadToBuffer answers
DownloadOk(t) ==
  /\ UNCHANGED <<ledgerVars, resumeVars, pollVars, quotaVars, liveVars>>
  /\ pc[t] = "downloading"
  /\ pc' = [pc EXCEPT ![t] = "sending"]
  /\ UNCHANGED <<permits, queue, timers, call, handoff, before, result>>

\* downloadToBuffer throws and the release is not in a finally block: the
\* catch block answers, the permit stays taken
DownloadFailNoRelease(t) ==
  /\ UNCHANGED <<ledgerVars, resumeVars, pollVars, quotaVars, liveVars>>
  /\ pc[t] = "downloading"
  /\ pc' = [pc EXCEPT ![t] = "done"]
  /\ \E msg \in DownloadErrors :
       result' = [result EXCEPT ![t] = FallbackReason(msg)]
  /\ TrackOrder
  /\ UNCHANGED <<permits, queue, timers, handoff, call>>

\* downloadToBuffer throws: finally releases, the catch block answers
DownloadFail(t) ==
  /\ UNCHANGED <<ledgerVars, resumeVars, pollVars, quotaVars, liveVars>>
  /\ pc[t] = "downloading"
  /\ release(t, "done")
  /\ \E msg \in DownloadErrors :
       result' = [result EXCEPT ![t] = FallbackReason(msg)]
  /\ TrackOrder
  /\ UNCHANGED call

\* interaction.editReply answers: finally releases
SendOk(t) ==
  /\ UNCHANGED <<ledgerVars, resumeVars, pollVars, quotaVars, liveVars>>
  /\ pc[t] = "sending"
  /\ release(t, "done")
  /\ result' = [result EXCEPT ![t] = "attached"]
  /\ TrackOrder
  /\ UNCHANGED call

\* interaction.editReply throws: finally releases, the catch block answers
SendFail(t) ==
  /\ UNCHANGED <<ledgerVars, resumeVars, pollVars, quotaVars, liveVars>>
  /\ pc[t] = "sending"
  /\ release(t, "done")
  /\ \E msg \in DiscordErrors :
       result' = [result EXCEPT ![t] = FallbackReason(msg)]
  /\ TrackOrder
  /\ UNCHANGED call

AttachNext ==
  \E t \in Tasks :
    \/ AttachMetadataFail(t)
    \/ AttachStart(t)
    \/ AttachTimeout(t)
    \/ DownloadOk(t)
    \/ DownloadFail(t)
    \/ SendOk(t)
    \/ SendFail(t)

AttachSpec == SemInit /\ [][AttachNext]_vars

(***************************************************************************)
(* Resumption coordinator (src/discord/task-resume.service.ts)             *)
(***************************************************************************)
BatchSize == 3         \* for (i = 0; i < requests.length; i += 3)
WindowHours == 24      \* getIncompleteRequests(24), ageHours > 24

Min(a, b) == IF a < b THEN a ELSE b

\* the rows of the table when the process starts: request 1 was created 25
\* hours ago, every further one an hour later than the one before
ItemIds == 1 .. (NumReq + 1)
CreatedAt(k) == StartTime - (WindowHours + 2 - k)

\* a row left in generating by the previous process (setGenerating wrote
\* operation_name, gcs_prefix and started_at together)
GeneratingRow(k) ==
  [NewRow(CreatedAt(k)) EXCEPT !.status = "generating",
                               !.operation_name = Some("op-old"),
                               !.gcs_prefix = Some(buildOutputPrefix(k)),
                               !.started_at = Some(CreatedAt(k))]

RECURSIVE OrderByCreatedAt(_, _)
OrderByCreatedAt(L, ids) ==
  IF ids = {} THEN <<>>
  ELSE LET first == CHOOSE x \in ids : \A y \in ids :
                      \/ L[x].created_at < L[y].created_at
                      \/ (L[x].created_at = L[y].created_at /\ x <= y)
       IN <<[id |-> first, status |-> L[first].status,
             operation_name |-> L[first].operation_name,
             gcs_prefix |-> L[first].gcs_prefix,
             created_at |-> L[first].created_at]>>
          \o OrderByCreatedAt(L, ids \ {first})

\* SELECT * FROM video_requests WHERE status IN ('pending', 'generating')
\*   AND created_at >= NOW() - INTERVAL '1 hour' * maxAgeHours ORDER BY created_at ASC
getIncompleteRequests(L, maxAgeHours, t) ==
  OrderByCreatedAt(L, {id \in DOMAIN L : /\ L[id].status \in Incomplete
                                         /\ L[id].created_at >= t - maxAgeHours})

NoItem ==
  [kind |-> "none", wrapper |-> "none", outcome |-> "none", logic |-> "none",
   files |-> Null, polled |-> "none", starts |-> 0, delivered |-> 0,
   calls |-> {}, failed |-> FALSE, timedOut |-> FALSE]

\* messages thrown inside the resume logic
StartErrors == {"Veo API error (500)"}
StorageErrors == {"No such object: not found", "ECONNRESET"}
RequestTimeoutMsg == "Request timeout"
ExpiredMsg == "Request expired (>24 hours old)"
NoFilesMsg == "No video files found after generation"
MakePublicErrors == {"ECONNRESET"}
FileLists == {<<"a.mp4", "b.mp4">>}

\* a catch block that only logs unless the operation is gone
CatchWriteLogOnly(kind, msg) ==
  IF kind = "generating" /\ (Includes(msg, "404") \/ Includes(msg, "not found"))
  THEN "setTimeout"
  ELSE "none"

\* the ledger call made by the catch block of resumePendingRequest (kind
\* pending) or of resumeGeneratingRequest (kind generating) for a message
CatchWrite(kind, msg) ==
  IF kind = "generating" /\ (Includes(msg, "404") \/ Includes(msg, "not found"))
  THEN "setTimeout"
  ELSE "setFailed"

\* the table after the call `w` made for request id with message msg
ApplyWrite(L, id, w, msg, t) ==
  CASE w = "setFailed" -> setFailed(L, id, msg, t)
    [] w = "setTimeout" -> setTimeout(L, id, DefaultTimeoutMsg, t)
    [] OTHER -> L

\* a dispatch that sends every item through resumePendingRequest
ResumePathAlwaysPending(status) == "pending"

\* which of resumePendingRequest / resumeGeneratingRequest an item runs
ResumePath(status) == IF status = "pending" THEN "pending" ELSE "generating"

\* the item of one snapshot row when its batch is mapped: the age check,
\* then the race of the resume logic against the 10 minute timer
Launch(q, t) ==
  IF q.status = "pending" /\ t - q.created_at > WindowHours
  THEN [NoItem EXCEPT !.kind = "pending", !.wrapper = "expiring"]
  ELSE IF ResumePath(q.status) = "pending"
       THEN [NoItem EXCEPT !.kind = "pending", !.wrapper = "racing",
                           !.logic = "start", !.starts = 1]
       ELSE [NoItem EXCEPT !.kind = "generating", !.wrapper = "racing",
                           !.logic = "poll"]

\* sendChannelMessage: whether it reports success, and how many messages
\* reached the channel (method: what attachVideoOrFallback answered, its
\* editReply being a channel send that succeeded exactly when it is attached)
sendChannelMessage(channelOk, method, sendOk) ==
  IF ~channelOk THEN [sent |-> FALSE, delivered |-> 0]
  ELSE IF method = "url"
       THEN IF sendOk THEN [sent |-> TRUE, delivered |-> 1]
                      ELSE [sent |-> FALSE, delivered |-> 0]
       ELSE [sent |-> TRUE, delivered |-> 1]

\* the resume logic of r has ended: the race is won by it unless the timer
\* has fired already (results.completed++)
EndLogic(it) ==
  IF it.wrapper = "racing"
  THEN [it EXCEPT !.logic = "end", !.wrapper = "settled", !.outcome = "completed"]
  ELSE [it EXCEPT !.logic = "end"]

\* an exception leaves the item's async function: Promise.allSettled records
\* the rejection, or the item's catch block counts results.failed
Raised(it) ==
  [it EXCEPT !.logic = IF @ = "none" THEN "none" ELSE "end",
             !.wrapper = "settled", !.outcome = "failed"]

\* the item after a ledger write: the step that follows the await, unless the
\* write threw
AfterWrite(it, next) == IF WriteOutcome(dbUp) = "threw" THEN Raised(it) ELSE next

\* an error thrown inside the resume logic of r reaches its catch block
Catch(r, msg) ==
  LET w == CatchWrite(item[r].kind, msg) IN
  /\ Write(r, ApplyWrite(ledger, r, w, msg, now))
  /\ item' = [item EXCEPT ![r] =
                AfterWrite(item[r],
                  EndLogic([item[r] EXCEPT !.failed = TRUE,
                                           !.calls = @ \cup ({w} \ {"none"})]))]

\* one more call of the run goes wrong
Fault ==
  /\ faults < MaxFaults
  /\ faults' = faults + 1

\* resumeIncompleteTasks: getIncompleteRequests(24)
Fetch ==
  /\ cpc = "idle"
  /\ LET rows == IF dbUp THEN getIncompleteRequests(ledger, WindowHours, now)
                         ELSE <<>> IN
     /\ snapshot' = rows
     /\ cpc' = IF Len(rows) = 0 THEN "done" ELSE "running"
  /\ lost' = IF dbUp THEN lost ELSE lost \cup {0}
  /\ UNCHANGED <<faults, ledger, now, dbUp, outages, launched, item, semVars, pollVars, quotaVars, liveVars>>

\* a loop that maps the next batch without awaiting Promise.allSettled
BatchesNotAwaited == TRUE

\* every item handed to a batch so far has settled
BatchesSettled == \A k \in 1 .. launched : item[snapshot[k].id].wrapper = "settled"

\* the next batch is mapped once every item of the batches before has settled
LaunchBatch ==
  /\ cpc = "running"
  /\ launched < Len(snapshot)
  /\ BatchesSettled
  /\ LET last == Min(launched + BatchSize, Len(snapshot)) IN
     /\ launched' = last
     /\ item' = [r \in DOMAIN item |->
                   IF \E k \in (launched + 1) .. last : snapshot[k].id = r
                   THEN Launch(snapshot[CHOOSE k \in (launched + 1) .. last :
                                          snapshot[k].id = r], now)
                   ELSE item[r]]
  /\ UNCHANGED <<faults, cpc, snapshot, ledgerVars, semVars, pollVars, quotaVars, liveVars>>

\* an expired pending request: setTimeout(id, 'Request expired ...'), results.timeout++
Expire(r) ==
  /\ item[r].wrapper = "expiring"
  /\ Write(r, setTimeout(ledger, r, ExpiredMsg, now))
  /\ item' = [item EXCEPT ![r] =
                AfterWrite(item[r],
                  [item[r] EXCEPT !.wrapper = "settled", !.outcome = "timeout",
                                  !.calls = @ \cup {"setTimeout"}])]
  /\ UNCHANGED <<faults, cpc, snapshot, launched, semVars, pollVars, quotaVars, liveVars>>

\* the 10 minute timer wins the race: the item's catch block calls setTimeout(id)
TimerFire(r) ==
  /\ item[r].wrapper = "racing"
  /\ Includes(RequestTimeoutMsg, "timeout")
  /\ Write(r, setTimeout(ledger, r, DefaultTimeoutMsg, now))
  /\ item' = [item EXCEPT ![r] =
                AfterWrite(item[r],
                  [item[r] EXCEPT !.wrapper = "settled", !.outcome = "timeout",
                                  !.timedOut = TRUE, !.failed = TRUE,
                                  !.calls = @ \cup {"setTimeout"}])]
  /\ Fault
  /\ UNCHANGED <<cpc, snapshot, launched, semVars, pollVars, quotaVars, liveVars>>

\* resumePendingRequest: startGeneration answers, setGenerating follows
StartOk(r) ==
  /\ item[r].logic = "start"
  /\ Write(r, setGenerating(ledger, r, "op-new", buildOutputPrefix(r), now))
  /\ item' = [item EXCEPT ![r] =
                AfterWrite(item[r],
                  [item[r] EXCEPT !.logic = "poll",
                                  !.calls = @ \cup {"setGenerating"}])]
  /\ UNCHANGED <<faults, cpc, snapshot, launched, semVars, pollVars, quotaVars, liveVars>>

\* resumePendingRequest: startGeneration throws
StartFail(r) ==
  /\ item[r].logic = "start"
  /\ \E msg \in StartErrors : Catch(r, msg)
  /\ Fault
  /\ UNCHANGED <<cpc, snapshot, launched, semVars, pollVars, quotaVars, liveVars>>

\* pollAndComplete: pollOperation returns done
PollDone(r) ==
  /\ item[r].logic = "poll"
  /\ item' = [item EXCEPT ![r] = [@ EXCEPT !.logic = "list", !.polled = "done"]]
  /\ UNCHANGED <<faults, ledgerVars, cpc, snapshot, launched, semVars, pollVars, quotaVars, liveVars>>

\* pollAndComplete: pollOperation throws its deadline error
PollTimeout(r) ==
  /\ item[r].logic = "poll"
  /\ Write(r, ApplyWrite(ledger, r, CatchWrite(item[r].kind, DefaultTimeoutMsg),
                         DefaultTimeoutMsg, now))
  /\ item' = [item EXCEPT ![r] =
                AfterWrite(item[r],
                  EndLogic([item[r] EXCEPT
                              !.failed = TRUE, !.polled = "timeout",
                              !.calls = @ \cup ({CatchWrite(item[r].kind,
                                                            DefaultTimeoutMsg)}
                                                \ {"none"})]))]
  /\ Fault
  /\ UNCHANGED <<cpc, snapshot, launched, semVars, pollVars, quotaVars, liveVars>>

\* the deadline error of each poller
TimedOutMsg(svc) ==
  CASE svc = "veo" -> "Generation timed out after 5 minutes"
    [] svc = "banana" -> "Image generation timed out after 3 minutes"
    [] OTHER -> "Operation timed out after 5 minutes"

\* what checkOperationStatus makes of a non-OK answer or a thrown fetch
checkOperationStatusFailed(svc) == IF svc = "legacy" THEN "threw" ELSE "probe"

\* what the status check of the resumed poll answers for a handle the API
\* no longer knows (HTTP 404): the error message the poll ends with when no
\* result file ever appears
HandleGoneMsg ==
  IF checkOperationStatusFailed("veo") = "threw" THEN "Poll error (404)"
  ELSE TimedOutMsg("veo")

\* pollAndComplete: the handle of a generating request is gone; every status
\* check answers 404, no file appears and pollOperation ends with its error
PollHandleGone(r) ==
  /\ item[r].logic = "poll"
  /\ item[r].kind = "generating"
  /\ LET w == CatchWrite(item[r].kind, HandleGoneMsg) IN
     /\ Write(r, ApplyWrite(ledger, r, w, HandleGoneMsg, now))
     /\ item' = [item EXCEPT ![r] =
                   AfterWrite(item[r],
                     EndLogic([item[r] EXCEPT !.failed = TRUE, !.polled = "gone",
                                              !.calls = @ \cup ({w} \ {"none"})]))]
  /\ Fault
  /\ UNCHANGED <<cpc, snapshot, launched, semVars, pollVars, quotaVars, liveVars>>

\* the message of the error payload of an operation that failed at the API
ApiErrorMsg == "Internal error encountered"

\* pollAndComplete: the status check reports done with an error payload;
\* pollOperation returns {done: true, error} and its result is not looked at
PollErrorPayload(r) ==
  /\ item[r].logic = "poll"
  /\ item' = [item EXCEPT ![r] = [@ EXCEPT !.logic = "list", !.polled = "error"]]
  /\ Fault
  /\ UNCHANGED <<ledgerVars, cpc, snapshot, launched, semVars, pollVars, quotaVars, liveVars>>

\* pollAndComplete: listFiles throws
ListFail(r) ==
  /\ item[r].logic = "list"
  /\ \E msg \in StorageErrors : Catch(r, msg)
  /\ Fault
  /\ UNCHANGED <<cpc, snapshot, launched, semVars, pollVars, quotaVars, liveVars>>

\* pollAndComplete: no file listed: setFailed, return
ListEmpty(r) ==
  /\ item[r].logic = "list"
  /\ Write(r, setFailed(ledger, r, NoFilesMsg, now))
  /\ item' = [item EXCEPT ![r] =
                AfterWrite(item[r],
                  EndLogic([item[r] EXCEPT !.files = Some(<<>>), !.failed = TRUE,
                                           !.calls = @ \cup {"setFailed"}]))]
  /\ Fault
  /\ UNCHANGED <<cpc, snapshot, launched, semVars, pollVars, quotaVars, liveVars>>

\* pollAndComplete: files listed and every one made public
ListOk(r) ==
  /\ item[r].logic = "list"
  /\ \E fs \in FileLists :
       item' = [item EXCEPT ![r] = [@ EXCEPT !.logic = "complete", !.files = Some(fs)]]
  /\ UNCHANGED <<faults, ledgerVars, cpc, snapshot, launched, semVars, pollVars, quotaVars, liveVars>>

\* pollAndComplete: files listed, makePublic throws
MakePublicFail(r) ==
  /\ item[r].logic = "list"
  /\ \E fs \in FileLists, msg \in MakePublicErrors :
       LET w == CatchWrite(item[r].kind, msg) IN
       /\ Write(r, ApplyWrite(ledger, r, w, msg, now))
       /\ item' = [item EXCEPT ![r] =
                     AfterWrite(item[r],
                       EndLogic([item[r] EXCEPT !.files = Some(fs), !.failed = TRUE,
                                                !.calls = @ \cup ({w} \ {"none"})]))]
  /\ Fault
  /\ UNCHANGED <<cpc, snapshot, launched, semVars, pollVars, quotaVars, liveVars>>

\* pollAndComplete: setCompleted(requestId, publicUrls)
Complete(r) ==
  /\ item[r].logic = "complete"
  /\ Write(r, setCompleted(ledger, r, PublicUrls(item[r].files[1]), now))
  /\ item' = [item EXCEPT ![r] =
                AfterWrite(item[r],
                  [item[r] EXCEPT !.logic = "notify",
                                  !.calls = @ \cup {"setCompleted"}])]
  /\ UNCHANGED <<faults, cpc, snapshot, launched, semVars, pollVars, quotaVars, liveVars>>

\* pollAndComplete: sendChannelMessage reaches the channel, then the logic ends
Notify(r) ==
  /\ item[r].logic = "notify"
  /\ \E method \in {"attached", "url"} :
       item' = [item EXCEPT ![r] =
                 EndLogic([item[r] EXCEPT !.delivered =
                   @ + sendChannelMessage(TRUE, method, TRUE).delivered])]
  /\ UNCHANGED <<faults, ledgerVars, cpc, snapshot, launched, semVars, pollVars, quotaVars, liveVars>>

\* pollAndComplete: the channel is gone or the send throws; sendChannelMessage
\* logs and answers false, the logic ends all the same
NotifyFail(r) ==
  /\ item[r].logic = "notify"
  /\ \E channelOk \in BOOLEAN :
       item' = [item EXCEPT ![r] =
                 EndLogic([item[r] EXCEPT !.delivered =
                   @ + sendChannelMessage(channelOk, "url", FALSE).delivered])]
  /\ Fault
  /\ UNCHANGED <<ledgerVars, cpc, snapshot, launched, semVars, pollVars, quotaVars, liveVars>>

\* every batch has settled: the summary is logged and resumeIncompleteTasks returns
Finish ==
  /\ cpc = "running"
  /\ launched = Len(snapshot)
  /\ BatchesSettled
  /\ cpc' = "done"
  /\ UNCHANGED <<faults, snapshot, launched, item, ledgerVars, semVars, pollVars, quotaVars, liveVars>>

\* time passes before the query or between two batches (the only places
\* where the coordinator reads the clock to decide: the age check at launch)
ResumeTick ==
  /\ cpc # "done"
  /\ BatchesSettled
  /\ Tick
  /\ UNCHANGED <<semVars, resumeVars, pollVars, quotaVars, liveVars>>

\* an outage of the store is one of the things that go wrong in a run
ResumeStoreDown ==
  /\ StoreDown
  /\ Fault
  /\ UNCHANGED <<cpc, snapshot, launched, item, semVars, pollVars, quotaVars, liveVars>>
ResumeStoreUp == StoreUp /\ UNCHANGED <<semVars, resumeVars, pollVars, quotaVars, liveVars>>

\* the status each row was left in by the previous process: alternating,
\* starting with either
InitialStatuses ==
  {[k \in ItemIds |-> IF k % 2 = first THEN "pending" ELSE "generating"] :
     first \in {0, 1}}

\* the table the previous process left, before ClientReady
ResumeInit ==
  /\ SemIdle
  /\ PollIdle
  /\ QuotaIdle
  /\ LiveIdle
  /\ \E st \in InitialStatuses :
       ledger = [k \in ItemIds |-> IF st[k] = "pending" THEN NewRow(CreatedAt(k))
                                                        ELSE GeneratingRow(k)]
  /\ now = StartTime
  /\ dbUp = TRUE
  /\ outages = 0
  /\ lost = {}
  /\ cpc = "idle"
  /\ snapshot = <<>>
  /\ launched = 0
  /\ faults = 0
  /\ item = [r \in ItemIds |-> NoItem]

ResumeNext ==
  \/ Fetch
  \/ LaunchBatch
  \/ Finish
  \/ ResumeTick
  \/ ResumeStoreDown
  \/ ResumeStoreUp
  \/ \E r \in ItemIds :
       \/ Expire(r)
       \/ TimerFire(r)
       \/ StartOk(r)
       \/ StartFail(r)
       \/ PollDone(r)
       \/ PollTimeout(r)
       \/ PollHandleGone(r)
       \/ PollErrorPayload(r)
       \/ ListFail(r)
       \/ ListEmpty(r)
       \/ ListOk(r)
       \/ MakePublicFail(r)
       \/ Complete(r)
       \/ Notify(r)
       \/ NotifyFail(r)

ResumeSpec == ResumeInit /\ [][ResumeNext]_vars

(***************************************************************************)
(* Operation poller: VeoService.pollOperation and BananaService             *)
(* .pollOperation (status check, storage probe, backoff, deadline), and the *)
(* one-argument VeoService.pollOperation of src/veo/veo.service.ts          *)
(***************************************************************************)
MAX_POLL_DURATION_MS == 300000
INITIAL_POLL_INTERVAL_MS == 1000
MAX_POLL_INTERVAL_MS == 10000
BANANA_MAX_POLL_DURATION_MS == 180000
BANANA_MAX_POLL_INTERVAL_MS == 5000

Services == {"veo", "banana", "legacy"}

\* the pollers that probe the result location
Probing == {"veo", "banana"}

MaxPollDuration(svc) ==
  IF svc = "banana" THEN BANANA_MAX_POLL_DURATION_MS ELSE MAX_POLL_DURATION_MS

MaxPollInterval(svc) ==
  IF svc = "banana" THEN BANANA_MAX_POLL_INTERVAL_MS ELSE MAX_POLL_INTERVAL_MS

\* Math.min(pollInterval * BACKOFF_MULTIPLIER, MAX_POLL_INTERVAL_MS) with
\* BACKOFF_MULTIPLIER = 1.5; the timer sleeps whole milliseconds, so the
\* interval is kept as its integer part
Backoff(svc, interval) == Min((interval * 3) \div 2, MaxPollInterval(svc))

\* an estimate without the cap
ProgressUncapped(svc, elapsedMs) ==
  (elapsedMs * 1000) \div (IF svc = "banana" THEN 60000 ELSE 180000)

\* Math.min(elapsedMs / estimatedDuration, 0.95), in thousandths
Progress(svc, elapsedMs) ==
  Min((elapsedMs * 1000) \div (IF svc = "banana" THEN 60000 ELSE 180000), 950)

PollEnded == ppc \in {"returned", "threw"}

\* a loop test that gives up one maximal sleep early
InTimeEarly(svc, elapsedMs) == elapsedMs + MaxPollInterval(svc) < MaxPollDuration(svc)

\* Date.now() - startTime < MAX_POLL_DURATION_MS
InTime(svc, elapsedMs) == elapsedMs < MaxPollDuration(svc)

\* a probe that never reports a file
checkGcsFilesNone(present, ok) == "none"

\* checkGcsFiles: the listing of the result location, [] when listFiles throws
checkGcsFiles(present, ok) == IF present /\ ok THEN "files" ELSE "none"

\* a call takes no time, or MaxCallMs for at most MaxSlowCalls calls of a poll
Durations == {0, MaxCallMs}
Takes(d) == d = 0 \/ poll.slow < MaxSlowCalls

\* the clock and the bookkeeping of the iteration after a call that took d ms
Spend(pl, d) ==
  [pl EXCEPT !.lastCalls = @ + d, !.slow = @ + (IF d = 0 THEN 0 ELSE 1)]

\* pollOperation returns {done: true}
Return(pl, t) == [pl EXCEPT !.outcome = "done", !.at = t]

\* pollOperation throws msg
Throw(pl, msg, t) == [pl EXCEPT !.outcome = msg, !.at = t]

\* pollOperation(operationName, gcsPrefix, onProgress?) is called
PollStart ==
  /\ ppc = "idle"
  /\ \E svc \in Services, h \in {"operation", "gemini-sync"}, cb \in BOOLEAN :
       /\ h = "gemini-sync" => svc = "banana"
       /\ svc = "legacy" => ~cb
       /\ service' = svc
       /\ jobHandle' = h
       /\ onProgress' = cb
       /\ ppc' = IF h = "gemini-sync" THEN "sync" ELSE "top"
  /\ elapsed' = 0
  /\ pollInterval' = INITIAL_POLL_INTERVAL_MS
  /\ UNCHANGED <<iter, objects, poll, semVars, ledgerVars, resumeVars, quotaVars, liveVars>>

CallbackErrorMsg == "Unknown interaction"

\* BananaService.pollOperation, handle gemini-sync-*: onProgress(1.0) resolves
\* (or there is no callback), return {done: true}
SyncReturn ==
  /\ ppc = "sync"
  /\ ppc' = "returned"
  /\ poll' = Return([poll EXCEPT !.reported = IF onProgress THEN Some(1000) ELSE @,
                                  !.invoked = IF onProgress THEN Some(1000) ELSE @],
                    elapsed)
  /\ UNCHANGED <<service, jobHandle, onProgress, elapsed, pollInterval, iter, objects,
                 semVars, ledgerVars, resumeVars, quotaVars, liveVars>>

\* BananaService.pollOperation, handle gemini-sync-*: onProgress(1.0) rejects
\* outside any try block
SyncReportFail ==
  /\ ppc = "sync"
  /\ onProgress
  /\ ppc' = "threw"
  /\ poll' = Throw([poll EXCEPT !.invoked = Some(1000)], CallbackErrorMsg, elapsed)
  /\ UNCHANGED <<service, jobHandle, onProgress, elapsed, pollInterval, iter, objects,
                 semVars, ledgerVars, resumeVars, quotaVars, liveVars>>

\* while (Date.now() - startTime < MAX_POLL_DURATION_MS): the body is entered
IterationStart ==
  /\ ppc = "top"
  /\ InTime(service, elapsed)
  /\ iter' = iter + 1
  /\ poll' = [poll EXCEPT !.lastStart = elapsed, !.lastCalls = 0, !.lastSleep = 0,
                          !.objIter = IF objects /\ @ = 0 THEN iter + 1 ELSE @]
  /\ ppc' = IF onProgress THEN "progress" ELSE "status"
  /\ UNCHANGED <<service, jobHandle, onProgress, elapsed, pollInterval, objects, semVars, ledgerVars, resumeVars, quotaVars, liveVars>>

\* the loop condition fails: throw new Error('... timed out ...')
DeadlineExit ==
  /\ ppc = "top"
  /\ ~InTime(service, elapsed)
  /\ ppc' = "threw"
  /\ poll' = Throw(poll, TimedOutMsg(service), elapsed)
  /\ UNCHANGED <<service, jobHandle, onProgress, elapsed, pollInterval, iter, objects,
                 semVars, ledgerVars, resumeVars, quotaVars, liveVars>>

\* try { await onProgress(progress) }: the callback resolves
ReportOk ==
  /\ ppc = "progress"
  /\ \E d \in Durations :
       /\ Takes(d)
       /\ elapsed' = elapsed + d
       /\ poll' = Spend([poll EXCEPT !.reported = Some(Progress(service, poll.lastStart)),
                                      !.invoked = Some(Progress(service, poll.lastStart))],
                        d)
  /\ ppc' = "status"
  /\ UNCHANGED <<service, jobHandle, onProgress, pollInterval, iter, objects, semVars, ledgerVars, resumeVars, quotaVars, liveVars>>

\* try { await onProgress(progress) } catch { warn }: the callback rejects
\* (poll.reported keeps the value of the latest report only if it resolved)
ReportFail ==
  /\ ppc = "progress"
  /\ \E d \in Durations :
       /\ Takes(d)
       /\ elapsed' = elapsed + d
       /\ poll' = Spend([poll EXCEPT !.reported = Null,
                                      !.invoked = Some(Progress(service, poll.lastStart))],
                        d)
  /\ ppc' = "status"
  /\ UNCHANGED <<service, jobHandle, onProgress, pollInterval, iter, objects, semVars, ledgerVars, resumeVars, quotaVars, liveVars>>

\* the position after completion was seen: the final report, or the return
Completed == IF onProgress THEN "final" ELSE "returned"

\* the status check answers done: true without an error payload
StatusDone ==
  /\ ppc = "status"
  /\ \E d \in Durations :
       /\ Takes(d)
       /\ elapsed' = elapsed + d
       /\ poll' = IF Completed = "returned" THEN Return(Spend(poll, d), elapsed + d)
                                            ELSE Spend(poll, d)
  /\ ppc' = Completed
  /\ UNCHANGED <<service, jobHandle, onProgress, pollInterval, iter, objects, semVars, ledgerVars, resumeVars, quotaVars, liveVars>>

\* the status check answers with an error payload (done: true, error): the
\* pollers with a probe return it as done, the one-argument poller throws
StatusErrorPayload ==
  /\ ppc = "status"
  /\ \E d \in Durations :
       /\ Takes(d)
       /\ elapsed' = elapsed + d
       /\ poll' = IF service = "legacy"
                  THEN Throw(Spend(poll, d), "Generation failed", elapsed + d)
                  ELSE IF Completed = "returned"
                       THEN Return(Spend(poll, d), elapsed + d)
                       ELSE Spend(poll, d)
  /\ ppc' = IF service = "legacy" THEN "threw" ELSE Completed
  /\ UNCHANGED <<service, jobHandle, onProgress, pollInterval, iter, objects, semVars, ledgerVars, resumeVars, quotaVars, liveVars>>

\* the status check answers done: false
StatusRunning ==
  /\ ppc = "status"
  /\ \E d \in Durations :
       /\ Takes(d)
       /\ elapsed' = elapsed + d
       /\ poll' = Spend(poll, d)
  /\ ppc' = IF service = "legacy" THEN "sleep" ELSE "probe"
  /\ UNCHANGED <<service, jobHandle, onProgress, pollInterval, iter, objects, semVars, ledgerVars, resumeVars, quotaVars, liveVars>>


\* the status check fails in transport (non-OK HTTP answer, fetch or token
\* throws): checkOperationStatus answers {done: false}; the one-argument
\* poller throws 'Poll error (...)'
StatusTransport ==
  /\ ppc = "status"
  /\ \E d \in Durations :
       /\ Takes(d)
       /\ elapsed' = elapsed + d
       /\ poll' = IF checkOperationStatusFailed(service) = "threw"
                  THEN Throw(Spend(poll, d), "Poll error (500)", elapsed + d)
                  ELSE Spend(poll, d)
  /\ ppc' = checkOperationStatusFailed(service)
  /\ UNCHANGED <<service, jobHandle, onProgress, pollInterval, iter, objects, semVars, ledgerVars, resumeVars, quotaVars, liveVars>>

\* the probe of the result location answers (files.length > 0, or none)
Probe ==
  /\ ppc = "probe"
  /\ \E d \in Durations :
       /\ Takes(d)
       /\ elapsed' = elapsed + d
       /\ IF checkGcsFiles(objects, TRUE) = "files"
          THEN /\ ppc' = Completed
               /\ poll' = IF Completed = "returned"
                          THEN Return(Spend(poll, d), elapsed + d)
                          ELSE Spend(poll, d)
          ELSE /\ ppc' = "sleep"
               /\ poll' = Spend(poll, d)
  /\ UNCHANGED <<service, jobHandle, onProgress, pollInterval, iter, objects, semVars, ledgerVars, resumeVars, quotaVars, liveVars>>

\* listFiles throws: checkGcsFiles logs and answers []
ProbeFail ==
  /\ ppc = "probe"
  /\ \E d \in Durations :
       /\ Takes(d)
       /\ elapsed' = elapsed + d
       /\ poll' = Spend([poll EXCEPT !.probeFailed = @ \/ objects], d)
  /\ ppc' = IF checkGcsFiles(objects, FALSE) = "files" THEN Completed ELSE "sleep"
  /\ UNCHANGED <<service, jobHandle, onProgress, pollInterval, iter, objects, semVars, ledgerVars, resumeVars, quotaVars, liveVars>>

\* await this.sleep(pollInterval), then the backoff
Sleep ==
  /\ ppc = "sleep"
  /\ elapsed' = elapsed + pollInterval
  /\ pollInterval' = Backoff(service, pollInterval)
  /\ poll' = [poll EXCEPT !.lastSleep = pollInterval]
  /\ ppc' = "top"
  /\ UNCHANGED <<service, jobHandle, onProgress, iter, objects, semVars, ledgerVars, resumeVars, quotaVars, liveVars>>

\* try { await onProgress(1.0) }: the callback resolves; return {done: true}
FinalReportOk ==
  /\ ppc = "final"
  /\ ppc' = "returned"
  /\ poll' = Return([poll EXCEPT !.reported = Some(1000), !.invoked = Some(1000)],
                    elapsed)
  /\ UNCHANGED <<service, jobHandle, onProgress, elapsed, pollInterval, iter, objects,
                 semVars, ledgerVars, resumeVars, quotaVars, liveVars>>

\* try { await onProgress(1.0) } catch { }: the callback rejects; return {done: true}
FinalReportFail ==
  /\ ppc = "final"
  /\ ppc' = "returned"
  /\ poll' = Return([poll EXCEPT !.reported = Null, !.invoked = Some(1000)], elapsed)
  /\ UNCHANGED <<service, jobHandle, onProgress, elapsed, pollInterval, iter, objects,
                 semVars, ledgerVars, resumeVars, quotaVars, liveVars>>

\* the generation writes an output object to the result location
ObjectsAppear ==
  /\ ppc \notin {"idle", "returned", "threw"}
  /\ ~objects
  /\ objects' = TRUE
  /\ UNCHANGED <<service, jobHandle, onProgress, ppc, elapsed, pollInterval, iter, poll,
                 semVars, ledgerVars, resumeVars, quotaVars, liveVars>>

PollInit == SemIdle /\ LedgerIdle /\ ResumeIdle /\ PollIdle /\ QuotaIdle /\ LiveIdle

PollNext ==
  \/ PollStart
  \/ SyncReturn
  \/ SyncReportFail
  \/ IterationStart
  \/ DeadlineExit
  \/ ReportOk
  \/ ReportFail
  \/ StatusDone
  \/ StatusErrorPayload
  \/ StatusRunning
  \/ StatusTransport
  \/ Probe
  \/ ProbeFail
  \/ Sleep
  \/ FinalReportOk
  \/ FinalReportFail
  \/ ObjectsAppear

PollSpec == PollInit /\ [][PollNext]_vars

(***************************************************************************)
(* Properties of the semaphore and of the download gate                    *)
(***************************************************************************)
Waiting == {t \in Tasks : pc[t] = "waiting"}
Holders == {t \in Tasks : pc[t] \in {"holding", "fn", "downloading", "sending"}}
QueueSet == {queue[i] : i \in 1 .. Len(queue)}

\* the caller that has waited longest, by arrival order
Oldest(w) == w \in Waiting /\ \A p \in before : p[2] # w

\* C2: the wait queue is strictly FIFO: in every step, a waiter that is given
\* a permit has no waiter that called acquire before it still waiting
\* afterwards; a waiter leaves ahead of an older one only by timing out.
FIFOOrder ==
  [][\A p \in before :
       (pc'[p[1]] = "waiting" /\ pc'[p[2]] # "waiting")
         => (pc'[p[2]] = Rejected(call[p[2]]) /\ p[2] \notin handoff')]_vars

\* a waiter has been served from the queue while two later ones still wait in order
FIFOWitness ==
  \E t \in handoff : pc[t] = "holding" /\ before # {} /\ Len(queue) >= 2

\* C3: with every release made by a caller that holds a permit,
\* available permits stay within 0 .. capacity.
PermitsInRange == permits \in 0 .. MaxPermits

\* an acquire/release pair has completed and all permits are back
PermitsWitness ==
  permits = MaxPermits /\ \E t \in Tasks : call[t] = "acquire" /\ pc[t] = "idle"

\* C4: the wait queue holds exactly the callers whose acquire is pending,
\* each once: a caller whose acquire failed with Timeout is not in it.
NoLeakedWaiter ==
  /\ QueueSet = Waiting
  /\ Len(queue) = Cardinality(Waiting)
  /\ \A t \in Tasks : pc[t] = "timedout" => t \notin QueueSet

\* a caller has timed out while another one is still queued
TimeoutWitness ==
  \E t \in Tasks : pc[t] = "timedout" /\ t \notin QueueSet /\ Len(queue) = 1

\* C5: a release with waiters queued takes the longest-waiting one out of the
\* queue, disarms its timeout and gives it the permit, available permits
\* unchanged; a release with no waiter adds exactly one available permit.
ReleaseHandsOver ==
  [][(\E t \in Tasks : pc[t] \in {"holding", "fn"}
                        /\ pc'[t] \in {"idle", "returned", "threw"})
       => IF Len(queue) > 0
          THEN /\ permits' = permits
               /\ Len(queue') = Len(queue) - 1
               /\ \A w \in Tasks : Oldest(w) =>
                     /\ pc'[w] = Granted(call[w])
                     /\ w \in handoff'
                     /\ w \notin timers'
                     /\ \A i \in 1 .. Len(queue') : queue'[i] # w
               /\ \A w \in Waiting : ~Oldest(w) => pc'[w] = "waiting"
          ELSE /\ permits' = permits + 1
               /\ queue' = queue]_vars

\* a waiter holds a permit handed over by release, its timeout disarmed
ReleaseWitness ==
  \E t \in handoff : pc[t] = "holding" /\ t \notin timers /\ permits = 0

\* C6: a runExclusive call that has ended, by return or by throw, has given
\* its permit back: with every caller outside a call, all permits are available.
RunExclusiveReleases ==
  (\A t \in Tasks : Free(t)) => (permits = MaxPermits /\ queue = <<>>)

\* concurrent runExclusive calls have all ended, one by a throw of fn
RunExclusiveWitness ==
  /\ \A t \in Tasks : Free(t) /\ call[t] = "runExclusive"
  /\ \E t \in Tasks : pc[t] = "threw"
  /\ \E t \in Tasks : pc[t] = "returned"

\* C7: the attachVideoOrFallback calls that are downloading (or sending the
\* downloaded file, the permit still held) never outnumber the limit.
DownloadsBounded ==
  Cardinality({t \in Tasks : pc[t] \in {"downloading", "sending"}}) <= MaxPermits

\* the limit is reached and further calls are queued
DownloadsWitness ==
  /\ Cardinality({t \in Tasks : pc[t] = "downloading"}) = MaxPermits
  /\ Len(queue) >= 2

(***************************************************************************)
(* Properties of the ledger                                                *)
(***************************************************************************)
\* C1: once a request's status is completed, failed or timeout, no later
\* ledger write changes its status (set_completed after set_failed is
\* rejected and the status stays failed).
TerminalIsFinal ==
  [][\A id \in DOMAIN ledger :
       ledger[id].status \in Terminal => ledger'[id].status = ledger[id].status]_vars

(***************************************************************************)
(* Properties of the resumption run                                        *)
(***************************************************************************)
\* the snapshot rows fetched in status generating, by request id
FetchedGenerating ==
  {snapshot[k].id : k \in {j \in 1 .. Len(snapshot) : snapshot[j].status = "generating"}}

\* the resume logic of r has ended after the status check reported done and
\* a non-empty list of result objects was listed
DoneAndListed(r) ==
  /\ item[r].logic = "end"
  /\ item[r].polled = "done"
  /\ item[r].files # Null
  /\ item[r].files # Some(<<>>)

AllIncompleteReachTerminal ==
  (cpc = "done" /\ outages = 0 /\ lost = {}) =>
    \A r \in ItemIds : ledger[r].status \in Terminal

\* the steps of the run that need nothing to go wrong
HealthyStep ==
  \/ LaunchBatch
  \/ Finish
  \/ \E r \in ItemIds :
       \/ Expire(r)
       \/ StartOk(r)
       \/ PollDone(r)
       \/ ListOk(r)
       \/ Complete(r)
       \/ Notify(r)

\* the snapshot rows handed to a batch so far, by request id
Launched == {snapshot[k].id : k \in 1 .. launched}

\* C10: a failure inside one item (an error thrown by one of its calls, an
\* empty listing, its timer) never stops the run: while the run is under way
\* a step of the coordinator or of an item is possible, the run finishes only
\* when every fetched row has been handed to a batch and has settled, and
\* every failed item has called setFailed or setTimeout for its request.
ItemFailuresAreIsolated ==
  /\ cpc = "running" => ENABLED HealthyStep
  /\ cpc = "done" =>
       /\ launched = Len(snapshot)
       /\ \A r \in Launched : item[r].wrapper = "settled"
  /\ \A r \in ItemIds :
       item[r].failed => item[r].calls \cap {"setFailed", "setTimeout"} # {}

\* the run has finished: an item of the first batch failed by a thrown error
\* and was written failed, a sibling of its batch and the item of the second
\* batch were completed
ItemFailureWitness ==
  /\ cpc = "done"
  /\ Len(snapshot) > BatchSize
  /\ \E a, b \in {snapshot[k].id : k \in 1 .. BatchSize} :
       /\ a # b
       /\ item[a].failed /\ ~item[a].timedOut
       /\ "setFailed" \in item[a].calls
       /\ ledger[a].status = "failed"
       /\ item[b].outcome = "completed" /\ ledger[b].status = "completed"
  /\ \E c \in {snapshot[k].id : k \in (BatchSize + 1) .. Len(snapshot)} :
       ledger[c].status = "completed"

(***************************************************************************)
(* Properties of the operation poller                                      *)
(***************************************************************************)
\* a poll of a pollable handle by a poller that probes the result location
\* has ended
ProbingPollEnded == PollEnded /\ service \in Probing /\ jobHandle = "operation"

PollTimedOut == ProbingPollEnded /\ poll.outcome = TimedOutMsg(service)

\* C12 as stated: a poll that never sees completion ends with the deadline
\* error, not before the deadline has elapsed and not later than the deadline
\* plus one sleep interval.
TimeoutWithinOneSleep ==
  (ProbingPollEnded /\ poll.outcome # "done") =>
    /\ poll.outcome = TimedOutMsg(service)
    /\ poll.at >= MaxPollDuration(service)
    /\ poll.at <= MaxPollDuration(service) + poll.lastSleep

\* C12, amended: a poll that never sees completion ends with the deadline
\* error, not before the deadline has elapsed and earlier than the deadline
\* plus the time the calls of its last iteration took (callback, status
\* check, probe) plus one sleep interval, which is at most the maximal one.
TimeoutWithinLastIteration ==
  (ProbingPollEnded /\ poll.outcome # "done") =>
    /\ poll.outcome = TimedOutMsg(service)
    /\ poll.at >= MaxPollDuration(service)
    /\ poll.at < MaxPollDuration(service) + poll.lastCalls + poll.lastSleep
    /\ poll.lastSleep <= MaxPollInterval(service)

\* a poll timed out later than the deadline plus its last sleep, a call of its
\* last iteration having been slow
TimeoutWitness12 ==
  /\ PollTimedOut
  /\ poll.lastCalls > 0
  /\ poll.at > MaxPollDuration(service) + poll.lastSleep

\* C13 as stated: a transport error of the status check or of the storage
\* probe never ends the poll; the iteration counts as not done.
TransportErrorsTolerated ==
  [][(StatusTransport \/ ProbeFail) => ppc' # "threw"]_vars

\* C14 as stated: an error raised by the progress callback never fails a
\* poll, whatever the handle and whichever the report.
CallbackErrorsSwallowed == poll.outcome # CallbackErrorMsg

(***************************************************************************)
(* Quota gate: RateLimitService.consume over the ledger's                  *)
(* countRecentRequests and getOldestRequestTime, and the commands that     *)
(* call consume and then createRequest                                     *)
(***************************************************************************)
VEO_QUOTA_LIMIT == 5
BANANA_QUOTA_LIMIT == 10
QUOTA_WINDOW_HOURS == 24

Commands == 1 .. NumCommands
Users == {"u1", "u2"}
RequestType == {"veo", "banana"}

\* getQuotaLimit(requestType)
getQuotaLimit(requestType) ==
  IF requestType = "banana" THEN BANANA_QUOTA_LIMIT ELSE VEO_QUOTA_LIMIT

\* the row createRequest inserts: the INSERT names no request_type column, so
\* the column takes its default 'veo'; input_type is the request_type the
\* command passed
QuotaRow(t, userId, requestType) ==
  [status |-> "pending", created_at |-> t, user_id |-> userId,
   request_type |-> "veo", input_type |-> requestType]

\* WHERE user_id = userId AND created_at >= NOW() - INTERVAL '1 hour' * hoursAgo
RecentRows(L, userId, hoursAgo, t) ==
  {i \in DOMAIN L : L[i].user_id = userId /\ L[i].created_at >= t - hoursAgo}

\* countRecentRequests(userId, hoursAgo): COUNT(*), 0 when the query throws
countRecentRequests(L, userId, hoursAgo, t, up) ==
  IF up THEN Cardinality(RecentRows(L, userId, hoursAgo, t)) ELSE 0

\* getOldestRequestTime(userId, hoursAgo): the least created_at, null when
\* no row matches or the query throws
getOldestRequestTime(L, userId, hoursAgo, t, up) ==
  LET rows == RecentRows(L, userId, hoursAgo, t) IN
  IF ~up \/ rows = {} THEN Null
  ELSE Some(CHOOSE a \in {L[i].created_at : i \in rows} :
              \A i \in rows : a <= L[i].created_at)

\* the requests of one category the claims count: the user's in-window rows
\* whose command asked for requestType
CategoryRows(L, userId, requestType, hoursAgo, t) ==
  {i \in RecentRows(L, userId, hoursAgo, t) : L[i].input_type = requestType}

Max(a, b) == IF a >= b THEN a ELSE b

\* Math.max(0, Math.ceil((resetTime - Date.now()) / 1000)) with
\* resetTime = oldest + QUOTA_WINDOW_HOURS hours; the clock counts hours
WaitSeconds(oldest, t) == Max(0, (oldest + QUOTA_WINDOW_HOURS - t) * 3600)

\* the RateLimitResult values of consume
Allowed(count, limit) ==
  [allowed |-> TRUE, remaining |-> limit - count, waitSeconds |-> Null]
Denied(oldest, t) ==
  [allowed |-> FALSE, remaining |-> 0,
   waitSeconds |-> IF oldest = Null THEN Some(3600) ELSE Some(WaitSeconds(oldest[1], t))]

\* a command that has not called consume
NoCommand ==
  [user |-> "none", type |-> "none", count |-> 0, own |-> 0, ownOldest |-> Null,
   at |-> 0, degraded |-> FALSE, result |-> Null]

\* execute(): a command of userId for requestType reaches its rate limit check
Execute(c, userId, requestType) ==
  /\ qpc[c] = "idle"
  /\ qpc' = [qpc EXCEPT ![c] = "count"]
  /\ quota' = [quota EXCEPT ![c] = [NoCommand EXCEPT !.user = userId, !.type = requestType]]
  /\ UNCHANGED <<semVars, ledgerVars, resumeVars, pollVars, liveVars>>

\* consume: await countRecentRequests(userId, QUOTA_WINDOW_HOURS, requestType);
\* count < quotaLimit returns {allowed: true, remaining: quotaLimit - count}
ConsumeCount(c) ==
  /\ qpc[c] = "count"
  /\ LET q == quota[c]
         count == countRecentRequests(ledger, q.user, QUOTA_WINDOW_HOURS, now, dbUp)
         own == CategoryRows(ledger, q.user, q.type, QUOTA_WINDOW_HOURS, now)
         seen == [q EXCEPT !.count = count,
                           !.own = Cardinality(own),
                           !.ownOldest = IF own = {} THEN Null
                                         ELSE Some(CHOOSE a \in {ledger[i].created_at : i \in own} :
                                                     \A i \in own : a <= ledger[i].created_at),
                           !.at = now,
                           !.degraded = ~dbUp]
     IN IF count >= getQuotaLimit(q.type)
        THEN /\ qpc' = [qpc EXCEPT ![c] = "oldest"]
             /\ quota' = [quota EXCEPT ![c] = seen]
        ELSE /\ qpc' = [qpc EXCEPT ![c] = "allowed"]
             /\ quota' = [quota EXCEPT ![c] =
                            [seen EXCEPT !.result = Some(Allowed(count, getQuotaLimit(q.type)))]]
  /\ UNCHANGED <<semVars, ledgerVars, resumeVars, pollVars, liveVars>>

\* consume: await getOldestRequestTime(...); returns {allowed: false,
\* remaining: 0, waitSeconds}; the command replies with the limit message
ConsumeOldest(c) ==
  /\ qpc[c] = "oldest"
  /\ LET q == quota[c]
         oldest == getOldestRequestTime(ledger, q.user, QUOTA_WINDOW_HOURS, now, dbUp)
     IN quota' = [quota EXCEPT ![c] =
                    [q EXCEPT !.result = Some(Denied(oldest, now)),
                              !.at = now,
                              !.degraded = @ \/ ~dbUp]]
  /\ qpc' = [qpc EXCEPT ![c] = "denied"]
  /\ UNCHANGED <<semVars, ledgerVars, resumeVars, pollVars, liveVars>>

\* execute(): an allowed command calls createRequest; a failing INSERT gives
\* a synthetic id and no row
Create(c) ==
  /\ qpc[c] = "allowed"
  /\ ledger' = IF dbUp
               THEN Append(ledger, QuotaRow(now, quota[c].user, quota[c].type))
               ELSE ledger
  /\ qpc' = [qpc EXCEPT ![c] = "created"]
  /\ UNCHANGED <<now, dbUp, outages, lost, quota>>
  /\ UNCHANGED <<semVars, resumeVars, pollVars, liveVars>>

QuotaTick == Tick /\ UNCHANGED <<semVars, resumeVars, pollVars, quotaVars, liveVars>>

QuotaStoreDown == StoreDown /\ UNCHANGED <<semVars, resumeVars, pollVars, quotaVars, liveVars>>

QuotaStoreUp == StoreUp /\ UNCHANGED <<semVars, resumeVars, pollVars, quotaVars, liveVars>>

\* the rows of earlier commands: v video and b image requests of u1, the
\* first of them created age hours ago and the others within the last hour,
\* and one video request of u2
History(v, b, age) ==
  [i \in 1 .. (v + b + 1) |->
     IF i = v + b + 1 THEN QuotaRow(StartTime - 1, "u2", "veo")
     ELSE QuotaRow(IF i = 1 THEN StartTime - age ELSE StartTime - 1, "u1",
                   IF i <= v THEN "veo" ELSE "banana")]

Histories ==
  {History(v, b, age) : v \in {0, VEO_QUOTA_LIMIT - 1, VEO_QUOTA_LIMIT},
                        b \in {0, VEO_QUOTA_LIMIT},
                        age \in {QUOTA_WINDOW_HOURS - 1, QUOTA_WINDOW_HOURS}}

QuotaInit ==
  /\ SemIdle /\ ResumeIdle /\ PollIdle /\ LiveIdle
  /\ ledger \in Histories
  /\ now = StartTime
  /\ dbUp = TRUE
  /\ outages = 0
  /\ lost = {}
  /\ qpc = [c \in Commands |-> "idle"]
  /\ quota = [c \in Commands |-> NoCommand]

QuotaNext ==
  \/ \E c \in Commands, userId \in Users, requestType \in RequestType :
       Execute(c, userId, requestType)
  \/ \E c \in Commands : ConsumeCount(c)
  \/ \E c \in Commands : ConsumeOldest(c)
  \/ \E c \in Commands : Create(c)
  \/ QuotaTick
  \/ QuotaStoreDown
  \/ QuotaStoreUp

QuotaSpec == QuotaInit /\ [][QuotaNext]_vars

(***************************************************************************)
(* Properties of the quota gate                                            *)
(***************************************************************************)
\* the commands whose consume has returned
Decided == {c \in Commands : qpc[c] \in {"allowed", "denied", "created"}}

\* C15 as stated: consume denies exactly when the user's count of in-window
\* requests of the category is at least the limit, with a positive wait equal
\* to the oldest such request's creation time plus the window minus now, and
\* otherwise allows with remaining = limit - count.
QuotaDecisionExact ==
  \A c \in Decided :
    LET q == quota[c]
        r == q.result[1]
        limit == getQuotaLimit(q.type)
    IN ~q.degraded =>
         /\ r.allowed <=> q.own < limit
         /\ r.allowed => r.remaining = limit - q.own
         /\ ~r.allowed =>
              /\ q.ownOldest # Null
              /\ r.waitSeconds = Some((q.ownOldest[1] + QUOTA_WINDOW_HOURS - q.at) * 3600)
              /\ r.waitSeconds[1] > 0

\* C16 as stated: when a ledger query of consume fails, consume returns
\* exactly {allowed: true, remaining: 0}.
FailOpenExact ==
  \A c \in Decided :
    quota[c].degraded =>
      /\ quota[c].result[1].allowed
      /\ quota[c].result[1].remaining = 0

\* C17 as stated: for one user and one request type, the requests created
\* within any trailing 24-hour window never outnumber the quota limit (the
\* store answering throughout).
QuotaNeverExceeded ==
  outages = 0 =>
    \A userId \in Users, requestType \in RequestType, i \in DOMAIN ledger :
      Cardinality({j \in DOMAIN ledger :
                     /\ ledger[j].user_id = userId
                     /\ ledger[j].input_type = requestType
                     /\ ledger[j].created_at <= ledger[i].created_at
                     /\ ledger[j].created_at > ledger[i].created_at - QUOTA_WINDOW_HOURS})
        <= getQuotaLimit(requestType)

\* C18 as stated: requests of another category never cause a denial for this
\* category and never lower its remaining quota.
OtherCategoryIgnored ==
  \A c \in Decided :
    LET q == quota[c]
        r == q.result[1]
        limit == getQuotaLimit(q.type)
    IN /\ q.own < limit => r.allowed
       /\ r.allowed => r.remaining >= limit - q.own

(***************************************************************************)
(* Properties of the ledger writes                                         *)
(***************************************************************************)
\* C19 as stated: set_generating on a request whose status is not pending
\* (generating or terminal) leaves status, started_at, operation_name and
\* gcs_prefix unchanged.
SetGeneratingOnlyFromPending ==
  [][\A id \in DOMAIN ledger :
       (SetGenerating(id) /\ ledger[id].status # "pending") =>
         /\ ledger'[id].status = ledger[id].status
         /\ ledger'[id].started_at = ledger[id].started_at
         /\ ledger'[id].operation_name = ledger[id].operation_name
         /\ ledger'[id].gcs_prefix = ledger[id].gcs_prefix]_vars

\* a step of the resumption run in which item r awaits a ledger write
WritesLedger(r) ==
  \/ Expire(r) \/ TimerFire(r) \/ StartOk(r) \/ StartFail(r) \/ PollTimeout(r)
  \/ ListFail(r) \/ ListEmpty(r) \/ MakePublicFail(r) \/ Complete(r)

Started == {r \in ItemIds : item[r].wrapper # "none"}

\* C30: the snapshot is in ascending created_at order and is handed out from
\* its head in batches of at most three; the items started are exactly the
\* first `launched` snapshot rows, and a batch is started only in a state in
\* which every item of the batches before has settled. (Inside a batch the
\* items settle in any order.)
BatchesInCreationOrder ==
  [][/\ \A i, j \in 1 .. Len(snapshot') :
          i < j => snapshot'[i].created_at <= snapshot'[j].created_at
     /\ {r \in ItemIds : item'[r].wrapper # "none"}
          = {snapshot'[k].id : k \in 1 .. launched'}
     /\ launched' # launched =>
          /\ launched' = Min(launched + BatchSize, Len(snapshot))
          /\ \A k \in 1 .. launched : item[snapshot[k].id].wrapper = "settled"]_vars

\* the second batch is running; the first settled with its items ending
\* differently (one by the timer, one by its own logic)
SecondBatchWitness ==
  /\ launched > BatchSize
  /\ \E k \in (BatchSize + 1) .. launched : item[snapshot[k].id].wrapper = "racing"
  /\ \A k \in 1 .. BatchSize : item[snapshot[k].id].wrapper = "settled"
  /\ \E k \in 1 .. BatchSize : item[snapshot[k].id].outcome = "completed"

\* the items whose resume logic (generation start, poll, result handling) is
\* running
LogicRunning == {r \in ItemIds : item[r].logic \notin {"none", "end"}}

\* C25 as stated: a resumed request that has ended in failed or timeout has
\* had a notification sent to its channel.
FailureIsNotified ==
  \A r \in Started :
    (/\ item[r].wrapper = "settled"
     /\ r \notin LogicRunning
     /\ ledger[r].status \in {"failed", "timeout"}) => item[r].delivered >= 1

\* C27 as stated: once the per-item timer has won the race, the item's
\* resume logic makes no further ledger write for the request.
TimerWriteIsLast ==
  [][\A r \in ItemIds :
       item[r].timedOut => item'[r].calls = item[r].calls]_vars

(***************************************************************************)
(* A restart that finds only requests in status generating, all of them    *)
(* started within the last hours: the run of resumeIncompleteTasks in      *)
(* which nothing fails and the 10 minute timer of an item may fire         *)
(***************************************************************************)
\* a request the previous process left generating, NumReq + 2 - k hours old
RecentGeneratingRow(k) ==
  [GeneratingRow(k) EXCEPT !.created_at = StartTime - (NumReq + 2 - k),
                           !.started_at = Some(StartTime - (NumReq + 2 - k))]

TimerInit ==
  /\ SemIdle
  /\ PollIdle
  /\ QuotaIdle
  /\ LiveIdle
  /\ ledger = [k \in ItemIds |-> RecentGeneratingRow(k)]
  /\ now = StartTime
  /\ dbUp = TRUE
  /\ outages = 0
  /\ lost = {}
  /\ cpc = "idle"
  /\ snapshot = <<>>
  /\ launched = 0
  /\ faults = 0
  /\ item = [r \in ItemIds |-> NoItem]

TimerNext ==
  \/ Fetch
  \/ LaunchBatch
  \/ Finish
  \/ \E r \in ItemIds :
       \/ TimerFire(r)
       \/ PollDone(r)
       \/ ListOk(r)
       \/ Complete(r)
       \/ Notify(r)

TimerSpec == TimerInit /\ [][TimerNext]_vars

\* C28 as stated: at every moment at most three items have their resume
\* logic running.
AtMostThreeRunning == Cardinality(LogicRunning) <= BatchSize

(***************************************************************************)
(* Properties of the outcome a resumed poll leaves in the ledger           *)
(***************************************************************************)
\* C21 as stated: a generating request whose handle the API no longer
\* resolves is ended by the resumption in status timeout, never failed.
HandleGoneGivesTimeout ==
  [][\A r \in ItemIds :
       (PollHandleGone(r) /\ dbUp) => ledger'[r].status = "timeout"]_vars

\* C22 as stated: when the poller ends with its deadline error for a resumed
\* request, the request's status becomes timeout, not failed.
PollDeadlineGivesTimeout ==
  [][\A r \in ItemIds :
       (PollTimeout(r) /\ dbUp) => ledger'[r].status = "timeout"]_vars

\* C23 as stated: a request whose status check returned an error payload
\* ends in status failed carrying the API's error message (read here for the
\* jobs that left no file in storage, as a job that erred does).
ErrorPayloadGivesFailed ==
  \A r \in ItemIds :
    (/\ item[r].polled = "error"
     /\ item[r].files = Some(<<>>)
     /\ item[r].logic = "end"
     /\ ~item[r].timedOut
     /\ r \notin lost) =>
      /\ ledger[r].status = "failed"
      /\ ledger[r].error_message = Some(ApiErrorMsg)

(***************************************************************************)
(* The live command flow (VeoCommand.execute, from createRequest on)       *)
(***************************************************************************)
\* the id createRequest returns when the INSERT failed ('synthetic-...'): no
\* row carries it
SyntheticId == 0

LiveNoFilesMsg == "No video files were found after generation"

\* a command that has passed its quota check and not yet called createRequest
NoLive ==
  [pc |-> "create", id |-> Null, files |-> Null, calls |-> {}, thrown |-> Null,
   delivered |-> 0]

\* the ledger call of the catch block of execute for a message
LiveCatchWrite(msg) ==
  IF Includes(msg, "timed out") \/ Includes(msg, "timeout")
  THEN "setTimeout"
  ELSE "setFailed"

\* an error thrown inside the try block of execute reaches its catch block:
\* setTimeout or setFailed, then the failure text is sent
LiveCatch(c, msg) ==
  LET w == LiveCatchWrite(msg)
      id == live[c].id[1] IN
  /\ Write(id, ApplyWrite(ledger, id, w, msg, now))
  /\ live' = [live EXCEPT ![c] = [@ EXCEPT !.pc = "end", !.thrown = Some(msg),
                                           !.calls = @ \cup {w}]]

\* dbRequestId = await createRequest(...)
LiveCreate(c) ==
  /\ live[c].pc = "create"
  /\ ledger' = IF dbUp THEN Append(ledger, NewRow(now)) ELSE ledger
  /\ live' = [live EXCEPT ![c] =
                [@ EXCEPT !.pc = "start",
                          !.id = Some(IF dbUp THEN Len(ledger) + 1 ELSE SyntheticId)]]
  /\ UNCHANGED <<now, dbUp, outages, lost, semVars, resumeVars, pollVars, quotaVars>>

\* startGeneration returns the operation name
LiveStartOk(c) ==
  /\ live[c].pc = "start"
  /\ live' = [live EXCEPT ![c] = [@ EXCEPT !.pc = "setGenerating"]]
  /\ UNCHANGED <<ledgerVars, semVars, resumeVars, pollVars, quotaVars>>

\* startGeneration throws
LiveStartFail(c) ==
  /\ live[c].pc = "start"
  /\ \E msg \in StartErrors : LiveCatch(c, msg)
  /\ UNCHANGED <<semVars, resumeVars, pollVars, quotaVars>>

\* setGenerating(dbRequestId, operationName, prefix)
LiveSetGenerating(c) ==
  /\ live[c].pc = "setGenerating"
  /\ LET id == live[c].id[1] IN
     Write(id, setGenerating(ledger, id, "op-1", buildOutputPrefix(id), now))
  /\ live' = [live EXCEPT ![c] = [@ EXCEPT !.pc = "progress",
                                           !.calls = @ \cup {"setGenerating"}]]
  /\ UNCHANGED <<semVars, resumeVars, pollVars, quotaVars>>

\* editReply({embeds: [progressEmbed]}) before the poll
LiveProgressOk(c) ==
  /\ live[c].pc = "progress"
  /\ live' = [live EXCEPT ![c] = [@ EXCEPT !.pc = "poll"]]
  /\ UNCHANGED <<ledgerVars, semVars, resumeVars, pollVars, quotaVars>>

LiveProgressFail(c) ==
  /\ live[c].pc = "progress"
  /\ \E msg \in DiscordErrors : LiveCatch(c, msg)
  /\ UNCHANGED <<semVars, resumeVars, pollVars, quotaVars>>

\* pollOperation returns (progress callback errors are caught inside it)
LivePollDone(c) ==
  /\ live[c].pc = "poll"
  /\ live' = [live EXCEPT ![c] = [@ EXCEPT !.pc = "list"]]
  /\ UNCHANGED <<ledgerVars, semVars, resumeVars, pollVars, quotaVars>>

\* pollOperation throws its deadline error
LivePollTimeout(c) ==
  /\ live[c].pc = "poll"
  /\ LiveCatch(c, TimedOutMsg("veo"))
  /\ UNCHANGED <<semVars, resumeVars, pollVars, quotaVars>>

\* listFiles throws
LiveListFail(c) ==
  /\ live[c].pc = "list"
  /\ \E msg \in StorageErrors : LiveCatch(c, msg)
  /\ UNCHANGED <<semVars, resumeVars, pollVars, quotaVars>>

\* no file listed: setFailed, then the reply that says so
LiveListEmpty(c) ==
  /\ live[c].pc = "list"
  /\ LET id == live[c].id[1] IN Write(id, setFailed(ledger, id, LiveNoFilesMsg, now))
  /\ live' = [live EXCEPT ![c] = [@ EXCEPT !.pc = "noFilesReply", !.files = Some(<<>>),
                                           !.calls = @ \cup {"setFailed"}]]
  /\ UNCHANGED <<semVars, resumeVars, pollVars, quotaVars>>

\* editReply('Generation completed but no video files were found'), return
LiveNoFilesReplyOk(c) ==
  /\ live[c].pc = "noFilesReply"
  /\ live' = [live EXCEPT ![c] = [@ EXCEPT !.pc = "end"]]
  /\ UNCHANGED <<ledgerVars, semVars, resumeVars, pollVars, quotaVars>>

\* that editReply throws
LiveNoFilesReplyFail(c) ==
  /\ live[c].pc = "noFilesReply"
  /\ \E msg \in DiscordErrors : LiveCatch(c, msg)
  /\ UNCHANGED <<semVars, resumeVars, pollVars, quotaVars>>

\* files listed and every one made public
LiveListOk(c) ==
  /\ live[c].pc = "list"
  /\ \E fs \in FileLists :
       live' = [live EXCEPT ![c] = [@ EXCEPT !.pc = "complete", !.files = Some(fs)]]
  /\ UNCHANGED <<ledgerVars, semVars, resumeVars, pollVars, quotaVars>>

\* files listed, makePublic throws
LiveMakePublicFail(c) ==
  /\ live[c].pc = "list"
  /\ \E msg \in MakePublicErrors : LiveCatch(c, msg)
  /\ UNCHANGED <<semVars, resumeVars, pollVars, quotaVars>>

\* setCompleted(dbRequestId, publicUrls)
LiveComplete(c) ==
  /\ live[c].pc = "complete"
  /\ LET id == live[c].id[1] IN
     Write(id, setCompleted(ledger, id, PublicUrls(live[c].files[1]), now))
  /\ live' = [live EXCEPT ![c] = [@ EXCEPT !.pc = "attach",
                                           !.calls = @ \cup {"setCompleted"}]]
  /\ UNCHANGED <<semVars, resumeVars, pollVars, quotaVars>>

\* attachVideoOrFallback answers method 'attached': the video was sent
LiveAttached(c) ==
  /\ live[c].pc = "attach"
  /\ live' = [live EXCEPT ![c] = [@ EXCEPT !.pc = "end", !.delivered = @ + 1]]
  /\ UNCHANGED <<ledgerVars, semVars, resumeVars, pollVars, quotaVars>>

\* attachVideoOrFallback answers method 'url' (it throws nothing)
LiveFallback(c) ==
  /\ live[c].pc = "attach"
  /\ live' = [live EXCEPT ![c] = [@ EXCEPT !.pc = "fallbackReply"]]
  /\ UNCHANGED <<ledgerVars, semVars, resumeVars, pollVars, quotaVars>>

\* editReply({content: warning and links, embeds}) after a URL fallback
LiveFallbackReplyOk(c) ==
  /\ live[c].pc = "fallbackReply"
  /\ live' = [live EXCEPT ![c] = [@ EXCEPT !.pc = "end", !.delivered = @ + 1]]
  /\ UNCHANGED <<ledgerVars, semVars, resumeVars, pollVars, quotaVars>>

\* that editReply throws: it stands inside the try block of execute
LiveFallbackReplyFail(c) ==
  /\ live[c].pc = "fallbackReply"
  /\ \E msg \in DiscordErrors : LiveCatch(c, msg)
  /\ UNCHANGED <<semVars, resumeVars, pollVars, quotaVars>>

\* BananaCommand.execute: requestId = await createRequest(...)
BananaCreate(c) ==
  /\ live[c].pc = "create"
  /\ ledger' = IF dbUp THEN Append(ledger, NewRow(now)) ELSE ledger
  /\ live' = [live EXCEPT ![c] =
                [@ EXCEPT !.pc = "bananaStart",
                          !.id = Some(IF dbUp THEN Len(ledger) + 1 ELSE SyntheticId)]]
  /\ UNCHANGED <<now, dbUp, outages, lost, semVars, resumeVars, pollVars, quotaVars>>

\* an error thrown inside the try block of BananaCommand.execute reaches its
\* catch block: it logs and sends the failure text, and calls no ledger write
BananaCatch(c, msg) ==
  live' = [live EXCEPT ![c] = [@ EXCEPT !.pc = "end", !.thrown = Some(msg)]]

\* bananaService.startGeneration returns, the progress embed is sent
BananaStartOk(c) ==
  /\ live[c].pc = "bananaStart"
  /\ live' = [live EXCEPT ![c] = [@ EXCEPT !.pc = "bananaPoll"]]
  /\ UNCHANGED <<ledgerVars, semVars, resumeVars, pollVars, quotaVars>>

\* bananaService.startGeneration or the progress editReply throws
BananaStartFail(c) ==
  /\ live[c].pc = "bananaStart"
  /\ \E msg \in StartErrors \cup DiscordErrors : BananaCatch(c, msg)
  /\ UNCHANGED <<ledgerVars, semVars, resumeVars, pollVars, quotaVars>>

\* bananaService.pollOperation returns
BananaPollDone(c) ==
  /\ live[c].pc = "bananaPoll"
  /\ live' = [live EXCEPT ![c] = [@ EXCEPT !.pc = "bananaList"]]
  /\ UNCHANGED <<ledgerVars, semVars, resumeVars, pollVars, quotaVars>>

\* bananaService.pollOperation throws its deadline error
BananaPollTimeout(c) ==
  /\ live[c].pc = "bananaPoll"
  /\ BananaCatch(c, TimedOutMsg("banana"))
  /\ UNCHANGED <<ledgerVars, semVars, resumeVars, pollVars, quotaVars>>

\* listImageFiles lists nothing: editReply(no image files), return
BananaListEmpty(c) ==
  /\ live[c].pc = "bananaList"
  /\ live' = [live EXCEPT ![c] = [@ EXCEPT !.pc = "end", !.files = Some(<<>>)]]
  /\ UNCHANGED <<ledgerVars, semVars, resumeVars, pollVars, quotaVars>>

\* listImageFiles or makePublic throws
BananaListFail(c) ==
  /\ live[c].pc = "bananaList"
  /\ \E msg \in StorageErrors : BananaCatch(c, msg)
  /\ UNCHANGED <<ledgerVars, semVars, resumeVars, pollVars, quotaVars>>

\* files listed and every one made public
BananaListOk(c) ==
  /\ live[c].pc = "bananaList"
  /\ \E fs \in FileLists :
       live' = [live EXCEPT ![c] = [@ EXCEPT !.pc = "bananaDeliver", !.files = Some(fs)]]
  /\ UNCHANGED <<ledgerVars, semVars, resumeVars, pollVars, quotaVars>>

\* the image is attached, or the links are sent after a failed attachment
BananaDeliverOk(c) ==
  /\ live[c].pc = "bananaDeliver"
  /\ live' = [live EXCEPT ![c] = [@ EXCEPT !.pc = "end", !.delivered = @ + 1]]
  /\ UNCHANGED <<ledgerVars, semVars, resumeVars, pollVars, quotaVars>>

\* the editReply of the inner catch block throws as well
BananaDeliverFail(c) ==
  /\ live[c].pc = "bananaDeliver"
  /\ \E msg \in DiscordErrors : BananaCatch(c, msg)
  /\ UNCHANGED <<ledgerVars, semVars, resumeVars, pollVars, quotaVars>>

LiveStoreDown == StoreDown /\ UNCHANGED <<semVars, resumeVars, pollVars, quotaVars, liveVars>>
LiveStoreUp == StoreUp /\ UNCHANGED <<semVars, resumeVars, pollVars, quotaVars, liveVars>>

\* the commands that passed their quota check, on an empty table
LiveInit ==
  /\ SemIdle /\ LedgerIdle /\ ResumeIdle /\ PollIdle /\ QuotaIdle
  /\ live = [c \in Commands |-> NoLive]

LiveNext ==
  \/ LiveStoreDown
  \/ LiveStoreUp
  \/ \E c \in Commands :
       \/ LiveCreate(c)
       \/ LiveStartOk(c)
       \/ LiveStartFail(c)
       \/ LiveSetGenerating(c)
       \/ LiveProgressOk(c)
       \/ LiveProgressFail(c)
       \/ LivePollDone(c)
       \/ LivePollTimeout(c)
       \/ LiveListFail(c)
       \/ LiveListEmpty(c)
       \/ LiveNoFilesReplyOk(c)
       \/ LiveNoFilesReplyFail(c)
       \/ LiveListOk(c)
       \/ LiveMakePublicFail(c)
       \/ LiveComplete(c)
       \/ LiveAttached(c)
       \/ LiveFallback(c)
       \/ LiveFallbackReplyOk(c)
       \/ LiveFallbackReplyFail(c)
       \/ BananaCreate(c)
       \/ BananaStartOk(c)
       \/ BananaStartFail(c)
       \/ BananaPollDone(c)
       \/ BananaPollTimeout(c)
       \/ BananaListEmpty(c)
       \/ BananaListFail(c)
       \/ BananaListOk(c)
       \/ BananaDeliverOk(c)
       \/ BananaDeliverFail(c)

LiveSpec == LiveInit /\ [][LiveNext]_vars

\* C24 as stated, for the live command flow: when the reply that delivers a
\* completed request's result fails, the request stays completed.
DeliveryFailureKeepsCompleted ==
  [][\A c \in Commands :
       (/\ LiveFallbackReplyFail(c)
        /\ live[c].id[1] \in DOMAIN ledger
        /\ ledger[live[c].id[1]].status = "completed") =>
         ledger'[live[c].id[1]].status = "completed"]_vars

(***************************************************************************)
(* Startup: resumeIncompleteTasks is started at ClientReady and not        *)
(* awaited, while the InteractionCreate handler already takes commands     *)
(***************************************************************************)
\* an empty table; the resumption has been called and its SELECT has not been
\* answered; the commands have passed their quota check
StartupInit ==
  /\ SemIdle /\ LedgerIdle /\ PollIdle /\ QuotaIdle
  /\ cpc = "idle"
  /\ snapshot = <<>>
  /\ launched = 0
  /\ faults = 0
  /\ item = [r \in ItemIds |-> NoItem]
  /\ live = [c \in Commands |-> NoLive]

StartupNext ==
  \/ Fetch
  \/ LaunchBatch
  \/ Finish
  \/ \E r \in ItemIds :
       \/ StartOk(r)
       \/ PollDone(r)
       \/ ListOk(r)
       \/ Complete(r)
       \/ Notify(r)
  \/ \E c \in Commands :
       \/ LiveCreate(c)
       \/ LiveStartOk(c)
       \/ LiveSetGenerating(c)
       \/ LiveProgressOk(c)
       \/ LivePollDone(c)
       \/ LiveListOk(c)
       \/ LiveComplete(c)
       \/ LiveAttached(c)

StartupSpec == StartupInit /\ [][StartupNext]_vars

\* C29 as stated: a resumption item and a live command flow never both issue
\* ledger writes for the same request id.
OneDriverPerRequest ==
  \A c \in Commands : \A r \in ItemIds :
    (live[c].id = Some(r) /\ live[c].calls # {}) => item[r].calls = {}

(***************************************************************************)
(* Properties of expired pending requests                                  *)
(***************************************************************************)
\* C31 as stated: a pending request older than 24 hours is not started and is
\* moved to timeout with the expired message; so once the run has finished,
\* the store having been reachable throughout, no request older than 24 hours
\* is still pending, and none that was older than 24 hours when the process
\* started has had its generation started.
ExpiredPendingTimedOut ==
  (cpc = "done" /\ outages = 0 /\ lost = {}) =>
    \A r \in ItemIds :
      /\ (ledger[r].created_at < StartTime - WindowHours => item[r].starts = 0)
      /\ ~(ledger[r].status = "pending" /\ now - ledger[r].created_at > WindowHours)

(***************************************************************************)
(* Properties of the fields of a ledger row                                *)
(***************************************************************************)
\* C32 as stated: in every reachable state a request's completed_at is set
\* exactly when its status is completed, failed or timeout.
CompletedAtIffTerminal ==
  \A id \in DOMAIN ledger :
    (ledger[id].completed_at # Null) <=> (ledger[id].status \in Terminal)

\* C33 as stated: in every reachable state a request's list of results is
\* non-empty only if its status is completed.
ResultsOnlyWhenCompleted ==
  \A id \in DOMAIN ledger :
    (ledger[id].video_urls # Null /\ Len(ledger[id].video_urls[1]) > 0) =>
      ledger[id].status = "completed"

(***************************************************************************)
(* Properties of the progress reports of a poll                            *)
(***************************************************************************)
\* C34: in every poll that was handed a progress callback, each value the
\* callback is called with before completion is at most 0.95 and not below
\* the value of the call before; the callback is called with 1.0 only once
\* completion was seen, it has been called with 1.0 when the poll returns,
\* and it has not when the poll ends with its deadline error.
ProgressCappedAndMonotone ==
  [][/\ (ppc = "progress" /\ ppc' # "progress") =>
          /\ poll'.invoked # Null
          /\ poll'.invoked[1] <= 950
          /\ poll.invoked # Null => poll.invoked[1] <= poll'.invoked[1]
     /\ (poll'.invoked = Some(1000) /\ poll.invoked # Some(1000)) =>
          ppc \in {"final", "sync"}
     /\ (ppc' = "returned" /\ ppc # "returned" /\ onProgress) =>
          poll'.invoked = Some(1000)
     /\ DeadlineExit => poll'.invoked # Some(1000)]_vars

\* a poll with a callback has reported below the cap, then at the cap, and
\* has returned after the report of 1.0
ProgressWitness ==
  /\ ppc = "returned"
  /\ onProgress
  /\ jobHandle = "operation"
  /\ poll.invoked = Some(1000)
  /\ Progress(service, poll.lastStart) = 950
  /\ iter >= 2

(***************************************************************************)
(* Further properties of the semaphore                                     *)
(***************************************************************************)
\* C35: when a waiter's acquire times out, only that waiter is affected: its
\* acquire fails, the available permits, the permit holders and every other
\* caller stay as they were, the queue is the old one without the waiter
\* (the others in their order), and whenever a waiter is later given a
\* permit it is the one at the head of the queue.
TimeoutOnlyAffectsWaiter ==
  [][/\ \A t \in Tasks :
          (Timeout(t) /\ pc[t] = "waiting") =>
            /\ pc'[t] = Rejected(call[t])
            /\ permits' = permits
            /\ handoff' = handoff
            /\ \A o \in Tasks \ {t} : pc'[o] = pc[o]
            /\ queue' = SelectSeq(queue, LAMBDA x : x # t)
            /\ timers' = timers \ {t}
            /\ before' = {p \in before : p[1] # t /\ p[2] # t}
     /\ \A w \in Tasks :
          (pc[w] = "waiting" /\ pc'[w] = Granted(call[w])) =>
            (w = Head(queue) /\ queue' = Tail(queue))]_vars

\* a waiter has timed out, and a release has since handed its permit to a
\* waiter while another one is still queued
TimeoutMidQueueWitness ==
  \E t \in Tasks, w \in handoff :
    /\ pc[t] = "timedout"
    /\ pc[w] = "holding"
    /\ Len(queue) >= 1
    /\ permits = 0

\* C36: an attachVideoOrFallback call that holds a download permit gives it
\* back in the step in which it returns, whatever it answers (attached,
\* download_error, discord_error, or concurrency_timeout for an error whose
\* message holds 'timeout'): the permit goes to the waiter at the head
\* of the queue, or is counted available again; a call that returns without
\* having held a permit releases none; and once every call has returned all
\* permits are available and nobody is queued.
AttachReleasesOnce ==
  [][/\ \A t \in Tasks :
          (pc[t] \in {"downloading", "sending"} /\ pc'[t] = "done") =>
            /\ result'[t] \in {"attached", "download_error", "discord_error",
                               "concurrency_timeout"}
            /\ IF Len(queue) > 0
               THEN /\ permits' = permits
                    /\ pc'[Head(queue)] = "downloading"
                    /\ queue' = Tail(queue)
               ELSE /\ permits' = permits + 1
                    /\ queue' = queue
     /\ \A t \in Tasks :
          (pc[t] \notin {"downloading", "sending"} /\ pc'[t] = "done" /\ pc[t] # "done") =>
            /\ permits' = permits
            /\ \A w \in Tasks \ {t} : pc'[w] = pc[w]
     /\ (\A t \in Tasks : pc'[t] = "done") => (permits' = MaxPermits /\ queue' = <<>>)]_vars

\* every call has returned, one with the video attached, one after a download
\* error and one after a Discord send error, and all permits are back
AttachAllReturnedWitness ==
  /\ \A t \in Tasks : pc[t] = "done"
  /\ \E t \in Tasks : result[t] = "attached"
  /\ \E t \in Tasks : result[t] = "download_error"
  /\ \E t \in Tasks : result[t] = "discord_error"
  /\ permits = MaxPermits

\* C37: no permit is lost or created: in every reachable state the available
\* permits plus the callers holding one make the capacity; exactly the
\* waiting callers have their timeout armed, so a caller that was handed a
\* permit cannot time out any more, and every caller that was handed a permit
\* by release holds it.
PermitsConserved ==
  /\ permits + Cardinality(Holders) = MaxPermits
  /\ timers = Waiting
  /\ handoff \subseteq Holders
  /\ \A t \in Tasks : pc[t] = "timedout" => t \notin handoff

\* a waiter has timed out, a later release has handed the permit to the next
\* waiter, and the caller that released is back outside any call
BackToBackWitness ==
  \E t \in Tasks, w \in handoff, r \in Tasks :
    /\ pc[t] = "timedout"
    /\ pc[w] = "holding"
    /\ pc[r] = "idle" /\ call[r] = "acquire"
    /\ queue = <<>>

\* C38: whenever the wait queue is non-empty no permit is available, so an
\* acquire takes the fast path only when nobody is queued.
NoFreePermitWhileQueued ==
  [][/\ Len(queue) > 0 => permits = 0
     /\ \A t \in Tasks :
          (pc[t] # "waiting" /\ pc'[t] \in {"holding", "fn"} /\ pc[t] \notin {"holding", "fn"}) =>
            queue = <<>>]_vars

\* callers are queued behind a holder, and a caller that came while nobody
\* was queued has taken the fast path
QueuedBehindHolderWitness ==
  /\ Len(queue) >= 2
  /\ permits = 0
  /\ \E t \in Tasks : pc[t] = "holding" /\ t \notin handoff

(***************************************************************************)
(* Properties of the end of a live command flow                            *)
(***************************************************************************)
\* C39 as stated: a live command flow that created a ledger request has left
\* it in a terminal status when the flow has ended (read here for the runs in
\* which the store was reachable throughout).
LiveFlowEndsTerminal ==
  (outages = 0 /\ lost = {}) =>
    \A c \in Commands :
      (live[c].pc = "end" /\ live[c].id[1] \in DOMAIN ledger) =>
        ledger[live[c].id[1]].status \in Terminal

\* C40 as stated: when the poll reports completion and no result file is
\* listed, set_completed is not called, no completion notification is sent,
\* and the resumption summary does not count the item as completed.
EmptyListingNotCompleted ==
  \A r \in ItemIds :
    (item[r].files = Some(<<>>) /\ item[r].logic = "end") =>
      /\ "setCompleted" \notin item[r].calls
      /\ item[r].delivered = 0
      /\ item[r].outcome # "completed"

====
